---- MODULE Spec2Model ----
(***************************************************************************)
(* MedSo: the dev-mode JSON content store, its ordering policy, the image  *)
(* upload handler and the admin list editors that drive them.              *)
(*                                                                         *)
(* A JavaScript string is a sequence of tokens ("/" and "." are tokens of  *)
(* their own, every other token is a word holding neither), an optional    *)
(* value is <<>> (undefined) or <<v>>, a file-system path is a sequence of *)
(* segments relative to process.cwd().                                     *)
(***************************************************************************)
EXTENDS Integers, Sequences, FiniteSets, TLC

VARIABLES
  TOKEN,      \* process.env.LOCAL_ADMIN_TOKEN, read once at start-up
  files,      \* the disk: path -> content, for every file that exists
  dirs,       \* the directories that exist
  now,        \* Date.now()
  req,        \* the request the server handled last
  res,        \* the response it gave
  admin,      \* the admin page open in each browser
  sessions,   \* the session store: what each session cookie stands for
  env,        \* process.env.NODE_ENV of the server, import.meta.env.DEV of the page
  hero        \* the Hero carousel of the landing page

vars == <<TOKEN, files, dirs, now, req, res, admin, sessions, env, hero>>

----------------------------------------------------------------------------
(* Bounds of the model *)

MaxNameLen == 3
MaxSortLen == 3
MaxBatch == 5
MaxClock == 2
MaxMembers == 2

----------------------------------------------------------------------------
(* Strings *)

Str(w) == <<w>>
Dot == "."
Slash == "/"

StartsWith(s, p) ==
  /\ Len(s) >= Len(p)
  /\ SubSeq(s, 1, Len(p)) = p

EndsWith(s, p) ==
  /\ Len(s) >= Len(p)
  /\ SubSeq(s, Len(s) - Len(p) + 1, Len(s)) = p

Includes(s, p) ==
  \E i \in 1..(Len(s) - Len(p) + 1) : SubSeq(s, i, i + Len(p) - 1) = p

\* an optional string in a boolean position: undefined and "" are falsy
Truthy(opt) == opt # <<>> /\ opt[1] # <<>>

\* s || d, for an optional string s
OrElse(opt, d) == IF Truthy(opt) THEN opt[1] ELSE d

\* n || 0, for an optional number n
OrZero(opt) == IF opt = <<>> THEN 0 ELSE opt[1]

----------------------------------------------------------------------------
(* Paths: path.join splits at "/", drops empty and "." segments and lets   *)
(* ".." remove the segment before it.                                      *)

RECURSIVE SplitFrom(_, _, _)
SplitFrom(s, i, cur) ==
  IF i > Len(s) THEN <<cur>>
  ELSE IF s[i] = Slash THEN <<cur>> \o SplitFrom(s, i + 1, <<>>)
  ELSE SplitFrom(s, i + 1, Append(cur, s[i]))

Split(s) == SplitFrom(s, 1, <<>>)

DotDot == <<Dot, Dot>>

RECURSIVE NormalizeFrom(_, _, _)
NormalizeFrom(segs, i, acc) ==
  IF i > Len(segs) THEN acc
  ELSE LET g == segs[i] IN
    IF g = <<>> \/ g = <<Dot>> THEN NormalizeFrom(segs, i + 1, acc)
    ELSE IF g = DotDot /\ acc # <<>> /\ acc[Len(acc)] # DotDot
      THEN NormalizeFrom(segs, i + 1, SubSeq(acc, 1, Len(acc) - 1))
    ELSE NormalizeFrom(segs, i + 1, Append(acc, g))

\* path.join(base, s) for a directory base that is already normal
PathJoin(base, s) == NormalizeFrom(base \o Split(s), 1, <<>>)

PUBLIC_DIR == <<Str("client"), Str("public")>>
DATA_DIR == PUBLIC_DIR \o <<Str("data")>>
UPLOAD_DIR == PUBLIC_DIR \o <<Str("uploads")>>
SRC_DATA_DIR == <<Str("client"), Str("src"), Str("data")>>

JsonName(w) == <<w, Dot, "json">>
ProgramsJson == JsonName("programs")
NewsJson == JsonName("news")
MembersJson == JsonName("members")
ClassesJson == JsonName("memberClasses")

----------------------------------------------------------------------------
(* Records and JSON *)

\* a field that holds a point in time: a Date object, or the ISO string
\* JSON.stringify turns it into
DateValue(t) == [isDate |-> TRUE, t |-> t]
IsoString(t) == [isDate |-> FALSE, t |-> t]

\* generateId: the clock and a random suffix
Id(t, r) == <<t, r>>

\* a member: the fields of a record and those of the member alone
MemberRec(id, ord, name, role, classId, stamp) ==
  [id |-> id, displayOrder |-> ord, name |-> name, title |-> <<>>, updatedAt |-> stamp,
   role |-> role, memberClassId |-> classId]

Rec(id, ord, name, title, stamp) ==
  [id |-> id, displayOrder |-> ord, name |-> name, title |-> title, updatedAt |-> stamp,
   role |-> <<>>, memberClassId |-> <<>>]

\* what a file or a request body holds: a JSON array of records, some other
\* JSON value, nothing at all (undefined), or the bytes of an image
ArrayOf(items) == [kind |-> "array", items |-> items, blob |-> 0]
ObjectValue == [kind |-> "object", items |-> <<>>, blob |-> 0]
Undefined == [kind |-> "undefined", items |-> <<>>, blob |-> 0]
Image(b) == [kind |-> "image", items |-> <<>>, blob |-> b]

\* JSON.stringify of one record, read back by JSON.parse: a Date becomes its
\* ISO string, every other field value is a JSON value already
JsonRecord(r) ==
  [r EXCEPT !.updatedAt =
     IF r.updatedAt = <<>> THEN <<>> ELSE <<IsoString(r.updatedAt[1].t)>>]

JsonRoundTrip(v) ==
  [v EXCEPT !.items = [i \in 1..Len(v.items) |-> JsonRecord(v.items[i])]]

\* a validation that lets every value through
Serializable_Anything(v) == TRUE

\* JSON.stringify(undefined) is undefined, which JSON.parse refuses
Serializable(v) == v.kind # "undefined"

----------------------------------------------------------------------------
(* Ordering policy: the comparator of the save endpoint and               *)
(* Array.prototype.sort as the runtime runs it on a short array: the      *)
(* leading run is found (and reversed when strictly descending), the rest *)
(* is inserted by binary insertion.                                       *)

Alphabet == <<"Alice", "Bob", "Carol", "Dave">>

\* a string that begins with a blank collates before every name
Rank(s) ==
  IF s = <<>> \/ s[1] = " " THEN 0
  ELSE CHOOSE i \in 1..Len(Alphabet) : Alphabet[i] = s[1]

localeCompare(s, t) ==
  IF Rank(s) < Rank(t) THEN -1 ELSE IF Rank(s) > Rank(t) THEN 1 ELSE 0

SecondaryKey(r) == OrElse(r.name, OrElse(r.title, <<>>))

Compare(a, b) ==
  IF a.displayOrder # b.displayOrder
  THEN OrZero(a.displayOrder) - OrZero(b.displayOrder)
  ELSE localeCompare(SecondaryKey(a), SecondaryKey(b))

Reverse(s) == [i \in 1..Len(s) |-> s[Len(s) + 1 - i]]

RECURSIVE RunEnd(_, _, _)
RunEnd(arr, idx, descending) ==
  IF idx > Len(arr) THEN idx - 1
  ELSE LET order == Compare(arr[idx], arr[idx - 1]) IN
    IF descending /\ order >= 0 THEN idx - 1
    ELSE IF ~descending /\ order < 0 THEN idx - 1
    ELSE RunEnd(arr, idx + 1, descending)

CountRun(arr) ==
  IF Len(arr) < 2 THEN Len(arr)
  ELSE RunEnd(arr, 3, Compare(arr[2], arr[1]) < 0)

MakeRun(arr) ==
  IF Len(arr) >= 2 /\ Compare(arr[2], arr[1]) < 0
  THEN Reverse(SubSeq(arr, 1, CountRun(arr))) \o SubSeq(arr, CountRun(arr) + 1, Len(arr))
  ELSE arr

RECURSIVE BinarySearch(_, _, _, _)
BinarySearch(arr, pivot, left, right) ==
  IF left >= right THEN left
  ELSE LET mid == left + ((right - left) \div 2) IN
    IF Compare(pivot, arr[mid]) < 0
    THEN BinarySearch(arr, pivot, left, mid)
    ELSE BinarySearch(arr, pivot, mid + 1, right)

RECURSIVE BinaryInsertionSort(_, _)
BinaryInsertionSort(arr, start) ==
  IF start > Len(arr) THEN arr
  ELSE LET pivot == arr[start]
           left == BinarySearch(arr, pivot, 1, start)
           placed == SubSeq(arr, 1, left - 1) \o <<pivot>>
                       \o SubSeq(arr, left, start - 1)
                       \o SubSeq(arr, start + 1, Len(arr))
       IN BinaryInsertionSort(placed, start + 1)

Sort(arr) ==
  IF Len(arr) < 2 THEN arr
  ELSE BinaryInsertionSort(MakeRun(arr), CountRun(arr) + 1)

----------------------------------------------------------------------------
(* Requests and responses *)

NoFile == [kind |-> "missing", s |-> <<>>]
FileName(s) == [kind |-> "string", s |-> s]
NotAString == [kind |-> "number", s |-> <<>>]

NoUpload == [present |-> FALSE, originalname |-> <<>>, mimetype |-> <<>>, size |-> 0, blob |-> 0]
FilePart(name, mime, size, b) ==
  [present |-> TRUE, originalname |-> name, mimetype |-> mime, size |-> size, blob |-> b]

\* data is what the caller handed over, content what JSON carried of it
Request(op, token, file, data, category, upload, path) ==
  [op |-> op, token |-> token, file |-> file, data |-> data,
   content |-> JsonRoundTrip(data),
   category |-> category, upload |-> upload, path |-> path]

NoRequest == Request("none", <<>>, NoFile, Undefined, <<>>, NoUpload, <<>>)

Response(status, error, count, publicPath, body) ==
  [status |-> status, error |-> error, count |-> count,
   publicPath |-> publicPath, body |-> body]

NoResponse == Response(0, "", 0, <<>>, Undefined)
Ok(count) == Response(200, "", count, <<>>, Undefined)
Fail(status, error) == Response(status, error, 0, <<>>, Undefined)

Exists(p) == p \in DOMAIN files

\* a write that keeps the records the file already holds
WriteFile_KeepOld(p, v) ==
  [q \in DOMAIN files \cup {p} |->
     IF q # p THEN files[q]
     ELSE IF Exists(p) /\ files[p].kind = "array" /\ v.kind = "array"
       THEN ArrayOf(files[p].items \o v.items)
       ELSE v]

WriteFile(p, v) == [q \in DOMAIN files \cup {p} |-> IF q = p THEN v ELSE files[q]]

Unlink(p) == [q \in DOMAIN files \ {p} |-> files[q]]

----------------------------------------------------------------------------
(* The dev endpoints of registerRoutes *)

Secret == Str("secret")

\* what (prev + 1) % 0 gives: NaN, which is no index and stays NaN
NaN == -1

\* setTimeout callbacks of the carousel: none, the auto-advance with the
\* list length its interval was created with, or goToSlide's index
NoTimer == [kind |-> "none", n |-> 0]
AdvanceTimer(n) == [kind |-> "advance", n |-> n]
GoToTimer(index) == [kind |-> "goto", n |-> index]

\* useState(0), useState(true), the query has no data yet
InitialHero ==
  [currentSlide |-> 0, isPlaying |-> TRUE, dbHeroImages |-> <<>>, timer |-> NoTimer]

\* the environment: NODE_ENV is not set or holds a name, DEV says whether
\* the page was built by the development server
Environment(nodeEnv, dev) == [NODE_ENV |-> nodeEnv, DEV |-> dev]

\* npm run dev: NODE_ENV=development, and vite serves a development build
Development == Environment(<<"development">>, TRUE)

\* the check without its "no token configured" half
requireDevToken_HeaderOnly(token) == token = TOKEN

requireDevToken(token) == Truthy(TOKEN) /\ token = TOKEN

\* if (process.env.NODE_ENV === "development") around the three /dev routes
DevRoutesRegistered == env.NODE_ENV = <<"development">>

\* the check without its ".." test
ValidFile_NoDotDot(file) ==
  /\ file.kind = "string"
  /\ EndsWith(file.s, <<Dot, "json">>)
  /\ ~Includes(file.s, <<Slash>>)

ValidFile(file) ==
  /\ file.kind = "string"
  /\ EndsWith(file.s, <<Dot, "json">>)
  /\ ~Includes(file.s, DotDot)
  /\ ~Includes(file.s, <<Slash>>)

MaxPrograms == 4

\* a save that keeps only the records that carry a displayOrder
DataToSave_OrderedOnly(content) ==
  IF content.kind = "array"
  THEN ArrayOf(Sort(SelectSeq(content.items, LAMBDA r : r.displayOrder # <<>>)))
  ELSE content

DataToSave(content) ==
  IF content.kind = "array" THEN ArrayOf(Sort(content.items)) ELSE content

\* the limit tied to another collection
OverLimit_OtherFile(file, v) ==
  file.s = NewsJson /\ Len(v.items) > MaxPrograms

\* the limit compared one too high
OverLimit_OneMore(file, v) ==
  file.s = ProgramsJson /\ Len(v.items) > MaxPrograms + 1

OverLimit(file, v) ==
  file.s = ProgramsJson /\ Len(v.items) > MaxPrograms

Count(v) == IF v.kind = "array" THEN Len(v.items) ELSE 1

SaveJsonResult(file, content) ==
  IF file.kind = "number" THEN Fail(500, "file?.endsWith is not a function")
  ELSE IF ~ValidFile(file) THEN Fail(400, "invalid file")
  ELSE IF ~Serializable(content) THEN Fail(500, "is not valid JSON")
  ELSE IF content.kind = "array" /\ OverLimit(file, DataToSave(content))
    THEN Fail(400, "Programs are limited to a maximum of 4 items")
  ELSE Ok(Count(DataToSave(content)))

\* the body arrives as JSON: the handler sees JsonRoundTrip(data)
SaveJson(token, file, data) ==
  /\ req' = Request("save-json", token, file, data, <<>>, NoUpload, <<>>)
  /\ IF ~DevRoutesRegistered
     THEN /\ res' = NoResponse
          /\ UNCHANGED files
     ELSE IF ~requireDevToken(token)
     THEN /\ res' = Fail(401, "unauthorized")
          /\ UNCHANGED files
     ELSE /\ res' = SaveJsonResult(file, JsonRoundTrip(data))
          /\ files' = IF SaveJsonResult(file, JsonRoundTrip(data)).status = 200
                      THEN WriteFile(PathJoin(DATA_DIR, file.s), DataToSave(JsonRoundTrip(data)))
                      ELSE files
  /\ UNCHANGED <<TOKEN, dirs, now>>

\* GET /data/<filename>, the static read behind loadJsonData
LoadJson(s) ==
  /\ req' = Request("load", <<>>, FileName(s), Undefined, <<>>, NoUpload, <<>>)
  /\ res' = IF Exists(PathJoin(DATA_DIR, s))
            THEN Response(200, "", 0, <<>>, files[PathJoin(DATA_DIR, s)])
            ELSE Fail(404, "Failed to load")
  /\ UNCHANGED <<TOKEN, files, dirs, now>>

----------------------------------------------------------------------------
(* Upload: multer's disk storage, file filter and size limit *)

allowedCategories == {Str("members"), Str("news"), Str("hero"), Str("programs"), Str("misc")}

allowedTypes == {"jpeg", "jpg", "png", "webp", "gif"}

\* toLowerCase, word by word
LowerWord(w) ==
  CASE w = "Photo" -> "photo"
    [] w = "PNG" -> "png"
    [] OTHER -> w

ToLowerCase(s) == [i \in 1..Len(s) |-> LowerWord(s[i])]

\* the tokens that hold no character of a-z0-9
Separators == {Dot, Slash, " ", "_", "-"}

\* the regular expression's test: some allowed type occurs in the string
TestAllowed(s) == \E i \in 1..Len(s) : s[i] \in allowedTypes

\* path.basename(p): what follows the last "/"
LastSegment(s) == Split(s)[Len(Split(s))]

\* path.extname(p): from the last "." of the base name on, unless that "." leads it
extname(s) ==
  LET b == LastSegment(s)
      dots == {i \in 1..Len(b) : b[i] = Dot}
  IN IF dots = {} \/ (CHOOSE i \in dots : \A j \in dots : j <= i) = 1 THEN <<>>
     ELSE SubSeq(b, CHOOSE i \in dots : \A j \in dots : j <= i, Len(b))

\* path.basename(p, ext)
basename(s, ext) ==
  LET b == LastSegment(s)
  IN IF ext # <<>> /\ b # ext /\ EndsWith(b, ext) THEN SubSeq(b, 1, Len(b) - Len(ext)) ELSE b

\* replace(/[^a-z0-9]+/g, '-') after toLowerCase: every run of separators
\* becomes one "-"
RECURSIVE Slug(_, _)
Slug(s, i) ==
  IF i > Len(s) THEN <<>>
  ELSE IF s[i] \in Separators
    THEN (IF i > 1 /\ s[i - 1] \in Separators THEN <<>> ELSE <<"-">>) \o Slug(s, i + 1)
  ELSE <<s[i]>> \o Slug(s, i + 1)

StorageFilename(originalname, t) ==
  Slug(ToLowerCase(basename(originalname, extname(originalname))), 1)
    \o <<"-", ToString(t)>> \o extname(originalname)

FinalCategory(category) ==
  IF OrElse(category, Str("misc")) \in allowedCategories
  THEN OrElse(category, Str("misc")) ELSE Str("misc")

fileFilter(upload) ==
  /\ TestAllowed(ToLowerCase(extname(upload.originalname)))
  /\ TestAllowed(upload.mimetype)

\* limits.fileSize, in megabytes
FileSizeLimit == 10

UploadDestination(category, upload) ==
  UPLOAD_DIR \o <<FinalCategory(category), StorageFilename(upload.originalname, now)>>

UploadPublicPath(category, upload) ==
  <<Slash, "uploads", Slash>> \o OrElse(category, Str("misc")) \o <<Slash>>
    \o StorageFilename(upload.originalname, now)

Upload(token, category, upload) ==
  /\ req' = Request("upload", token, NoFile, Undefined, category, upload, <<>>)
  /\ IF ~DevRoutesRegistered
     THEN /\ res' = NoResponse
          /\ UNCHANGED <<files, dirs>>
     ELSE IF ~requireDevToken(token)
     THEN /\ res' = Fail(401, "unauthorized")
          /\ UNCHANGED <<files, dirs>>
     ELSE IF ~upload.present
     THEN /\ res' = Fail(400, "no file")
          /\ UNCHANGED <<files, dirs>>
     ELSE IF ~fileFilter(upload)
     THEN /\ res' = Fail(500, "Only image files (jpeg, jpg, png, webp, gif) are allowed")
          /\ UNCHANGED <<files, dirs>>
     ELSE IF upload.size > FileSizeLimit
     THEN /\ res' = Fail(500, "File too large")
          /\ dirs' = dirs \cup {UPLOAD_DIR \o <<FinalCategory(category)>>}
          /\ UNCHANGED files
     ELSE /\ res' = Response(200, "", 0, UploadPublicPath(category, upload), Undefined)
          /\ dirs' = dirs \cup {UPLOAD_DIR \o <<FinalCategory(category)>>}
          /\ files' = WriteFile(UploadDestination(category, upload), Image(upload.blob))
  /\ UNCHANGED <<TOKEN, now>>

DeleteUploadResult(path) ==
  IF path = <<>> \/ path[1] = <<>> \/ ~StartsWith(path[1], <<Slash, "uploads", Slash>>)
    THEN Fail(400, "invalid file path")
  ELSE IF ~Exists(PathJoin(PUBLIC_DIR, path[1])) /\ PathJoin(PUBLIC_DIR, path[1]) \notin dirs
    THEN Fail(404, "file not found")
  ELSE IF PathJoin(PUBLIC_DIR, path[1]) \in dirs
    THEN Fail(500, "EISDIR")
  ELSE Ok(0)

DeleteUpload(token, path) ==
  /\ req' = Request("delete-upload", token, NoFile, Undefined, <<>>, NoUpload, path)
  /\ IF ~DevRoutesRegistered
     THEN /\ res' = NoResponse
          /\ UNCHANGED files
     ELSE IF ~requireDevToken(token)
     THEN /\ res' = Fail(401, "unauthorized")
          /\ UNCHANGED files
     ELSE /\ res' = DeleteUploadResult(path)
          /\ files' = IF DeleteUploadResult(path).status = 200
                      THEN Unlink(PathJoin(PUBLIC_DIR, path[1]))
                      ELSE files
  /\ UNCHANGED <<TOKEN, dirs, now>>

\* Date.now() moves on
Tick ==
  /\ now < MaxClock
  /\ now' = now + 1
  /\ UNCHANGED <<TOKEN, files, dirs, req, res>>

----------------------------------------------------------------------------
(* The standalone dev server *)

requireToken(token) == Truthy(TOKEN) /\ token = TOKEN

\* if (process.env.NODE_ENV === "production") throw: the process ends
\* before it listens
DevServerStarted == env.NODE_ENV # <<"production">>

DevServerSaveJsonResult(file, content) ==
  IF file.kind = "number" THEN Fail(500, "file?.endsWith is not a function")
  ELSE IF ~ValidFile(file) THEN Fail(400, "invalid file")
  ELSE IF ~Serializable(content) THEN Fail(500, "is not valid JSON")
  ELSE Ok(0)

DevServerSaveJson(token, file, data) ==
  /\ req' = Request("dev-save-json", token, file, data, <<>>, NoUpload, <<>>)
  /\ IF ~DevServerStarted
     THEN /\ res' = NoResponse
          /\ UNCHANGED files
     ELSE IF ~requireToken(token)
     THEN /\ res' = Fail(401, "unauthorized")
          /\ UNCHANGED files
     ELSE /\ res' = DevServerSaveJsonResult(file, JsonRoundTrip(data))
          /\ files' = IF DevServerSaveJsonResult(file, JsonRoundTrip(data)).status = 200
                      THEN WriteFile(PathJoin(SRC_DATA_DIR, file.s), JsonRoundTrip(data))
                      ELSE files
  /\ UNCHANGED <<TOKEN, dirs, now>>

DevServerFilename(originalname, t) ==
  basename(originalname, extname(originalname))
    \o <<"-", ToString(t)>> \o extname(originalname)

DevServerUpload(token, upload) ==
  /\ req' = Request("dev-upload", token, NoFile, Undefined, <<>>, upload, <<>>)
  /\ IF ~DevServerStarted
     THEN /\ res' = NoResponse
          /\ UNCHANGED files
     ELSE IF ~requireToken(token)
     THEN /\ res' = Fail(401, "unauthorized")
          /\ UNCHANGED files
     ELSE IF ~upload.present
     THEN /\ res' = Fail(400, "no file")
          /\ UNCHANGED files
     ELSE IF upload.size > FileSizeLimit
     THEN /\ res' = Fail(500, "File too large")
          /\ UNCHANGED files
     ELSE /\ res' = Response(200, "", 0,
                       <<Slash, "uploads", Slash>> \o DevServerFilename(upload.originalname, now),
                       Undefined)
          /\ files' = WriteFile(
                        PathJoin(UPLOAD_DIR, DevServerFilename(upload.originalname, now)),
                        Image(upload.blob))
  /\ UNCHANGED <<TOKEN, dirs, now>>

----------------------------------------------------------------------------
(* The admin page: the list components of programs and news, their       *)
(* dialogs, and devApi's saveToJson / loadJsonData                       *)

Clients == {1, 2}

\* import.meta.env.VITE_LOCAL_ADMIN_TOKEN of the client build
DEV_TOKEN == <<Secret>>

ListTabs == {"programs", "news"}

\* the tabs whose query data the model keeps
DataTabs == ListTabs \cup {"members", "classes"}

TabFile(tab) ==
  CASE tab = "programs" -> ProgramsJson
    [] tab = "news" -> NewsJson
    [] tab = "classes" -> ClassesJson
    [] OTHER -> MembersJson

\* ProgramManagement, MemberClass and Hero renumber on Save Order,
\* NewsManagement sends the list as it is
Renumbers(tab) == tab # "news"

\* the dialogs' form data: ProgramDialog has a displayOrder input,
\* NewsDialog has none
Form(title, ord) == [title |-> title, displayOrder |-> ord]

NoMutation == [kind |-> "none", tab |-> "members", toSave |-> <<>>]
Mutation(kind, tab, toSave) == [kind |-> kind, tab |-> tab, toSave |-> toSave]

\* ImageUploadField: its error and the url it handed to the form
Field(error, url) == [error |-> error, url |-> url]
IdleField == Field("", <<>>)

Page(tab, cache, reordered, hasReordered, unsaved, pending, toast) ==
  [tab |-> tab, cache |-> cache, reordered |-> reordered,
   hasReordered |-> hasReordered, unsaved |-> unsaved,
   pending |-> pending, toast |-> toast, field |-> IdleField]

\* useState("members"), useState({}), no query has data yet
InitialPage ==
  Page("members", [t \in DataTabs |-> <<>>], <<>>, FALSE, {}, NoMutation, "")

\* a render threw (a list that is no array, a row that is undefined):
\* React unmounts the page
Crashed(p) == [InitialPage EXCEPT !.tab = "crashed", !.pending = p.pending]

\* displayPrograms / displayNews
Displayed(p) ==
  IF p.hasReordered THEN p.reordered
  ELSE IF p.tab \notin ListTabs \/ p.cache[p.tab] = <<>> THEN <<>>
  ELSE p.cache[p.tab][1]

Ids(arr) == {arr[i].id : i \in 1..Len(arr)}

\* Array.prototype.findIndex by id, 0-based, -1 when no record matches
FindIndex(arr, id) ==
  IF id \in Ids(arr)
  THEN (CHOOSE i \in 1..Len(arr) :
          arr[i].id = id /\ \A j \in 1..(i - 1) : arr[j].id # id) - 1
  ELSE -1

\* the start index Array.prototype.splice works from
SpliceStart(len, start) ==
  IF start < 0 THEN (IF len + start < 0 THEN 0 ELSE len + start)
  ELSE IF start > len THEN len ELSE start

\* dnd-kit's arrayMove on a list that is not empty:
\*   newArray.splice(to < 0 ? newArray.length + to : to, 0,
\*                   newArray.splice(from, 1)[0])
arrayMove(arr, from, to) ==
  LET n == Len(arr)
      target == IF to < 0 THEN n + to ELSE to
      k == SpliceStart(n, from)
      rest == SubSeq(arr, 1, k) \o SubSeq(arr, k + 2, n)
      at == SpliceStart(Len(rest), target)
  IN SubSeq(rest, 1, at) \o <<arr[k + 1]>> \o SubSeq(rest, at + 1, Len(rest))

\* orderedPrograms.map((p, index) => ({ ...p, displayOrder: index }))
Renumber(arr) == [i \in 1..Len(arr) |-> [arr[i] EXCEPT !.displayOrder = <<i - 1>>]]

\* a record rebuilt from the form alone
Merge_FormOnly(old, form) == Rec(old.id, form.displayOrder, <<>>, form.title, <<>>)

\* { ...programs[index], ...data }
Merge(old, form) ==
  [old EXCEPT !.title = form.title,
              !.displayOrder = IF form.displayOrder = <<>> THEN @ ELSE form.displayOrder]

\* { ...data, id: generateId() }
NewRecord(form, id) == Rec(id, form.displayOrder, <<>>, form.title, <<>>)

\* the tab is selected: its list component mounts with fresh local state
SwitchTab(c, tab) ==
  /\ admin[c].tab # "crashed"
  /\ admin[c].tab # tab
  /\ admin' = [admin EXCEPT ![c].tab = tab, ![c].reordered = <<>>,
                            ![c].hasReordered = FALSE]
  /\ UNCHANGED <<TOKEN, files, dirs, now, req, res, sessions, env, hero>>

\* the browser reloads the page
Reload(c) ==
  /\ admin[c] # InitialPage
  /\ admin' = [admin EXCEPT ![c] = InitialPage]
  /\ UNCHANGED <<TOKEN, files, dirs, now, req, res, sessions, env, hero>>

\* the list's query runs (on mount, after invalidateQueries): a failed
\* fetch keeps the data the query had
Refetch(c) ==
  LET p == admin[c]
      path == PathJoin(DATA_DIR, TabFile(p.tab)) IN
  /\ p.tab \in DataTabs
  /\ LoadJson(TabFile(p.tab))
  /\ admin' = IF ~Exists(path) THEN admin
              ELSE IF files[path].kind # "array" THEN [admin EXCEPT ![c] = Crashed(p)]
              ELSE [admin EXCEPT ![c].cache[p.tab] = <<files[path].items>>]
  /\ UNCHANGED <<sessions, env, hero>>

\* devApi.ts: what saveToJson and uploadImage throw in a build that is no
\* development build, before any request
DevApiError == "Dev API only available in development mode"

\* handleDragEnd: the row `active` is dropped on the row `over`
handleDragEnd(c, active, over) ==
  LET p == admin[c] IN
  /\ p.tab \in ListTabs
  /\ {active, over} \subseteq Ids(Displayed(p))
  /\ active # over
  /\ p.cache[p.tab] # <<>>
  /\ LET list == p.cache[p.tab][1] IN
     admin' =
       IF list = <<>> THEN [admin EXCEPT ![c] = Crashed(p)]
       ELSE [admin EXCEPT
              ![c].reordered = arrayMove(list, FindIndex(list, active), FindIndex(list, over)),
              ![c].hasReordered = TRUE,
              ![c].unsaved = @ \cup {p.tab}]
  /\ UNCHANGED <<TOKEN, files, dirs, now, req, res, sessions, env, hero>>

\* Save Order is pressed: saveOrderMutation and its onSuccess
SaveOrder(c) ==
  LET p == admin[c]
      ordered == IF Renumbers(p.tab) THEN Renumber(p.reordered) ELSE p.reordered IN
  /\ p.tab \in ListTabs
  /\ p.hasReordered
  /\ IF ~env.DEV
     THEN UNCHANGED <<TOKEN, files, dirs, now, req, res, admin>>
     ELSE /\ SaveJson(<<OrElse(DEV_TOKEN, <<>>)>>, FileName(TabFile(p.tab)), ArrayOf(ordered))
          /\ admin' = IF res'.status = 200
                      THEN [admin EXCEPT ![c].hasReordered = FALSE,
                                         ![c].unsaved = @ \ {p.tab},
                                         ![c].toast = "Order saved"]
                      ELSE admin
  /\ UNCHANGED <<sessions, env, hero>>

\* what a mutationFn does before it calls saveToJson: loadJsonData, then
\* the new array, or the error it throws
LoadError(tab) ==
  IF ~Exists(PathJoin(DATA_DIR, TabFile(tab))) THEN "Failed to load"
  ELSE IF files[PathJoin(DATA_DIR, TabFile(tab))].kind # "array" THEN "is not a function"
  ELSE ""

Loaded(tab) == files[PathJoin(DATA_DIR, TabFile(tab))].items

AddError(tab) ==
  IF LoadError(tab) # "" THEN LoadError(tab)
  ELSE IF tab = "programs" /\ Len(Loaded(tab)) >= MaxPrograms
    THEN "Maximum of 4 programs allowed"
  ELSE ""

Edited(items, id, form) ==
  IF FindIndex(items, id) = -1 THEN items
  ELSE [items EXCEPT ![FindIndex(items, id) + 1] = Merge(@, form)]

Filtered(items, id) == SelectSeq(items, LAMBDA r : r.id # id)

\* only MemberDialog's and ProgramDialog's mutations have an onError
ErrorToast(m, old, message) ==
  IF m.tab \in {"programs", "members"} /\ m.kind \in {"add", "edit"} THEN message ELSE old

SuccessToast(m) ==
  CASE m.kind = "add" -> "added"
    [] m.kind = "edit" -> "updated"
    [] OTHER -> "deleted"

\* const canAdd = !programs || programs.length < 4
canAdd(p) ==
  IF p.cache["programs"] = <<>> THEN TRUE
  ELSE Len(p.cache["programs"][1]) < MaxPrograms

\* the dialog is submitted: saveMutation up to its call of saveToJson.
\* target is the record that is edited, or nothing for a new one
saveMutation(c, target, form, r) ==
  LET p == admin[c]
      kind == IF target = <<>> THEN "add" ELSE "edit"
      error == IF kind = "add" THEN AddError(p.tab) ELSE LoadError(p.tab)
      toSave == IF kind = "add"
                THEN Append(Loaded(p.tab), NewRecord(form, Id(now, r)))
                ELSE Edited(Loaded(p.tab), target[1], form) IN
  /\ p.tab \in ListTabs
  /\ p.pending.kind = "none"
  /\ Truthy(form.title)
  /\ (form.displayOrder = <<>>) <=> (p.tab = "news")
  /\ IF target = <<>>
     THEN p.tab = "programs" => canAdd(p)
     ELSE target[1] \in Ids(Displayed(p))
  /\ admin' = IF error # ""
              THEN [admin EXCEPT ![c].toast = ErrorToast(Mutation(kind, p.tab, <<>>), @, error)]
              ELSE [admin EXCEPT ![c].pending = Mutation(kind, p.tab, toSave)]
  /\ UNCHANGED <<TOKEN, files, dirs, now, req, res, sessions, env, hero>>

\* MemberDialog's form data
MemberForm(name, ord, role, classId) ==
  [name |-> name, displayOrder |-> ord, role |-> role, memberClassId |-> classId]

\* String.prototype.trim
RECURSIVE Trim(_)
Trim(s) ==
  IF s = <<>> THEN s
  ELSE IF s[1] = " " THEN Trim(Tail(s))
  ELSE IF s[Len(s)] = " " THEN Trim(SubSeq(s, 1, Len(s) - 1))
  ELSE s

\* the text of a form field
Text(field) == IF field = <<>> THEN <<>> ELSE field[1]

ActiveMember == <<"Active Member">>

\* memberClasses.find(mc => mc.id === formData.memberClassId)?.name
SelectedClassName(memberClasses, classId) ==
  IF classId = <<>> \/ classId[1] \notin Ids(memberClasses) THEN <<>>
  ELSE memberClasses[FindIndex(memberClasses, classId[1]) + 1].name

\* a submit that validates nothing
handleSubmit_NoValidation(form, memberClasses) == ""

\* handleSubmit: the validation error it shows, or none
handleSubmit(form, memberClasses) ==
  IF Trim(Text(form.name)) = <<>> THEN "Name is required"
  ELSE IF SelectedClassName(memberClasses, form.memberClassId) # <<ActiveMember>>
          /\ Trim(Text(form.role)) = <<>>
    THEN "Role is required for this member class"
  ELSE ""

\* { ...members[index], ...data, updatedAt: new Date() }
MergeMember(old, form, t) ==
  [old EXCEPT !.name = form.name, !.displayOrder = form.displayOrder,
              !.role = form.role, !.memberClassId = form.memberClassId,
              !.updatedAt = <<DateValue(t)>>]

EditedMember(items, id, form, t) ==
  IF FindIndex(items, id) = -1 THEN items
  ELSE [items EXCEPT ![FindIndex(items, id) + 1] = MergeMember(@, form, t)]

\* a new member that takes the id of the first member in the file
NewMember_FirstId(form, id, t) ==
  MemberRec(Id(0, 1), form.displayOrder, form.name, form.role, form.memberClassId,
            <<DateValue(t)>>)

\* { ...data, id: generateId(), createdAt: new Date(), updatedAt: new Date() }
NewMember(form, id, t) ==
  MemberRec(id, form.displayOrder, form.name, form.role, form.memberClassId,
            <<DateValue(t)>>)

\* memberClasses || []
ClassesOf(p) == IF p.cache["classes"] = <<>> THEN <<>> ELSE p.cache["classes"][1]

\* MemberDialog is submitted, for the member it was opened with or for a
\* new one: handleSubmit and saveMutation up to its call of saveToJson
MemberDialog_saveMutation(c, member, form, r) ==
  LET p == admin[c]
      kind == IF member = <<>> THEN "add" ELSE "edit"
      invalid == handleSubmit(form, ClassesOf(p))
      toSave == IF member = <<>>
                THEN Append(Loaded("members"), NewMember(form, Id(now, r), now))
                ELSE EditedMember(Loaded("members"), member[1], form, now) IN
  /\ p.tab = "members"
  /\ p.pending.kind = "none"
  /\ member # <<>> =>
       (p.cache["members"] # <<>> /\ member[1] \in Ids(p.cache["members"][1]))
  /\ admin' = IF invalid # "" THEN [admin EXCEPT ![c].toast = invalid]
              ELSE IF LoadError("members") # ""
                THEN [admin EXCEPT ![c].toast = LoadError("members")]
              ELSE [admin EXCEPT ![c].pending = Mutation(kind, "members", toSave)]
  /\ UNCHANGED <<TOKEN, files, dirs, now, req, res, sessions, env, hero>>

\* .sort((a, b) => (a.displayOrder || 0) - (b.displayOrder || 0)), which
\* is stable
SortByOrder(arr) ==
  LET n == Len(arr)
      Before(j, i) == \/ OrZero(arr[j].displayOrder) < OrZero(arr[i].displayOrder)
                      \/ /\ OrZero(arr[j].displayOrder) = OrZero(arr[i].displayOrder)
                         /\ j < i IN
  [k \in 1..n |->
    arr[CHOOSE i \in 1..n : Cardinality({j \in 1..n : Before(j, i)}) = k - 1]]

\* MemberManagement.getClassMembers: the rows shown under one class
getClassMembers(p, className) ==
  LET classes == SelectSeq(ClassesOf(p), LAMBDA mc : mc.name = className)
      InClass(m) == m.memberClassId = <<classes[1].id>> IN
  IF p.cache["members"] = <<>> \/ p.cache["classes"] = <<>> THEN <<>>
  ELSE IF classes = <<>> THEN <<>>
  ELSE IF p.hasReordered /\ Len(p.reordered) > 0 THEN SelectSeq(p.reordered, InClass)
  ELSE SortByOrder(SelectSeq(p.cache["members"][1], InClass))

\* the ids of the rows of every class section that is rendered
ShownMembers(p) ==
  UNION {Ids(getClassMembers(p, ClassesOf(p)[i].name)) : i \in DOMAIN ClassesOf(p)}

\* MemberManagement.handleDragEnd: within the section of one class the
\* row `active` is dropped on the row `over`
MemberManagement_handleDragEnd(c, className, active, over) ==
  LET p == admin[c]
      classMembers == getClassMembers(p, className) IN
  /\ p.tab = "members"
  /\ {active, over} \subseteq Ids(classMembers)
  /\ active # over
  /\ admin' = [admin EXCEPT
                ![c].reordered = arrayMove(classMembers, FindIndex(classMembers, active),
                                           FindIndex(classMembers, over)),
                ![c].hasReordered = TRUE,
                ![c].unsaved = @ \cup {"members"}]
  /\ UNCHANGED <<TOKEN, files, dirs, now, req, res, sessions, env, hero>>

\* MemberManagement's Save Order is pressed: saveOrderMutation with
\* reorderedMembers, and its onSuccess
MemberManagement_saveOrderMutation(c) ==
  LET p == admin[c] IN
  /\ p.tab = "members"
  /\ p.hasReordered
  /\ IF ~env.DEV
     THEN UNCHANGED <<TOKEN, files, dirs, now, req, res, admin>>
     ELSE /\ SaveJson(<<OrElse(DEV_TOKEN, <<>>)>>, FileName(MembersJson),
                      ArrayOf(Renumber(p.reordered)))
          /\ admin' = IF res'.status = 200
                      THEN [admin EXCEPT ![c].hasReordered = FALSE,
                                         ![c].unsaved = @ \ {"members"},
                                         ![c].toast = "Order saved"]
                      ELSE admin
  /\ UNCHANGED <<sessions, env, hero>>

\* MemberManagement.deleteMutation up to its call of saveToJson
MemberManagement_deleteMutation(c, id) ==
  LET p == admin[c] IN
  /\ p.tab = "members"
  /\ p.pending.kind = "none"
  /\ id \in ShownMembers(p)
  /\ admin' = IF LoadError("members") # "" THEN admin
              ELSE [admin EXCEPT ![c].pending =
                      Mutation("delete", "members", Filtered(Loaded("members"), id))]
  /\ UNCHANGED <<TOKEN, files, dirs, now, req, res, sessions, env, hero>>

\* the three images of fallbackHeroImages
fallbackHeroImages == <<[src |-> 1], [src |-> 2], [src |-> 3]>>

\* heroImages: the active images of the loaded list in display order, or
\* the fallback while nothing or an empty list is loaded
heroImages(h) ==
  IF h.dbHeroImages # <<>> /\ Len(h.dbHeroImages[1]) > 0
  THEN LET shown == SortByOrder(SelectSeq(h.dbHeroImages[1], LAMBDA img : img.isActive)) IN
       [i \in DOMAIN shown |-> [src |-> shown[i].src]]
  ELSE fallbackHeroImages

\* the query for /api/hero-images delivers a list
HeroImagesLoaded(list) ==
  /\ hero.dbHeroImages # <<list>>
  /\ hero' = [hero EXCEPT !.dbHeroImages = <<list>>]
  /\ UNCHANGED <<TOKEN, files, dirs, now, req, res, admin, sessions, env>>

\* the 6 s interval fires while playing and starts its 100 ms timeout
AutoAdvance ==
  /\ hero.isPlaying
  /\ hero.timer = NoTimer
  /\ hero' = [hero EXCEPT !.timer = AdvanceTimer(Len(heroImages(hero)))]
  /\ UNCHANGED <<TOKEN, files, dirs, now, req, res, admin, sessions, env>>

\* goToSlide(index) from an indicator, with handleInteraction
goToSlide(index) ==
  /\ index \in 0..(Len(heroImages(hero)) - 1)
  /\ hero.timer = NoTimer
  /\ hero' = [hero EXCEPT !.timer = GoToTimer(index), !.isPlaying = FALSE]
  /\ UNCHANGED <<TOKEN, files, dirs, now, req, res, admin, sessions, env>>

\* handleInteraction's 10 s timeout: setIsPlaying(true)
ResumePlaying ==
  /\ ~hero.isPlaying
  /\ hero' = [hero EXCEPT !.isPlaying = TRUE]
  /\ UNCHANGED <<TOKEN, files, dirs, now, req, res, admin, sessions, env>>

\* the 100 ms timeout runs setCurrentSlide
SlideTimeout ==
  LET t == hero.timer
      prev == hero.currentSlide IN
  /\ t # NoTimer
  /\ hero' = [hero EXCEPT
               !.timer = NoTimer,
               !.currentSlide = IF t.kind = "goto" THEN t.n
                                ELSE IF prev = NaN \/ t.n = 0 THEN NaN
                                ELSE (prev + 1) % t.n]
  /\ UNCHANGED <<TOKEN, files, dirs, now, req, res, admin, sessions, env>>

\* admin.tsx, MemberModal.handleSave: the role of a member of the class
\* without roles is emptied before the validation
DataToSend(form, memberClasses) ==
  IF SelectedClassName(memberClasses, form.memberClassId) = <<ActiveMember>>
  THEN [form EXCEPT !.role = <<<<>>>>]
  ELSE form

\* MemberModal's Save is pressed: a validation toast, or the request of
\* addMemberMutation / updateMemberMutation to /api/admin/members, whose
\* server is not part of these sources
handleSave(c, form) ==
  LET p == admin[c]
      dataToSave == DataToSend(form, ClassesOf(p)) IN
  /\ p.tab = "members"
  /\ IF handleSubmit(dataToSave, ClassesOf(p)) # ""
     THEN /\ admin' = [admin EXCEPT ![c].toast = handleSubmit(dataToSave, ClassesOf(p))]
          /\ UNCHANGED <<req, res>>
     ELSE /\ req' = Request("api-admin-members", <<>>, NoFile,
                            ArrayOf(<<NewMember(dataToSave, Id(0, 0), now)>>),
                            <<>>, NoUpload, <<>>)
          /\ res' = NoResponse
          /\ UNCHANGED admin
  /\ UNCHANGED <<TOKEN, files, dirs, now, sessions, env, hero>>

\* a row's delete is confirmed: deleteMutation up to its call of saveToJson
deleteMutation(c, id) ==
  LET p == admin[c] IN
  /\ p.tab \in ListTabs
  /\ p.pending.kind = "none"
  /\ id \in Ids(Displayed(p))
  /\ admin' = IF LoadError(p.tab) # "" THEN admin
              ELSE [admin EXCEPT ![c].pending =
                      Mutation("delete", p.tab, Filtered(Loaded(p.tab), id))]
  /\ UNCHANGED <<TOKEN, files, dirs, now, req, res, sessions, env, hero>>

\* saveToJson of the mutation in flight reaches the server, and the
\* mutation's onSuccess or onError runs
saveToJson(c) ==
  LET m == admin[c].pending IN
  /\ m.kind # "none"
  /\ IF ~env.DEV
     THEN /\ admin' = [admin EXCEPT ![c].pending = NoMutation,
                                    ![c].toast = ErrorToast(m, @, DevApiError)]
          /\ UNCHANGED <<TOKEN, files, dirs, now, req, res>>
     ELSE /\ SaveJson(<<OrElse(DEV_TOKEN, <<>>)>>, FileName(TabFile(m.tab)), ArrayOf(m.toSave))
          /\ admin' = [admin EXCEPT
                        ![c].pending = NoMutation,
                        ![c].toast = IF res'.status = 200 THEN SuccessToast(m)
                                     ELSE ErrorToast(m, @, res'.error)]
  /\ UNCHANGED <<sessions, env, hero>>

\* MAX_FILE_SIZE, in megabytes
MAX_FILE_SIZE == 5

ALLOWED_FILE_TYPES ==
  {<<"image", Slash, t>> : t \in {"jpeg", "jpg", "png", "webp", "gif"}}

\* validateImageFile: the error it reports, or none
validateImageFile(file) ==
  IF file.size > MAX_FILE_SIZE THEN "File size must be less than 5MB"
  ELSE IF file.mimetype \notin ALLOWED_FILE_TYPES THEN "Invalid file type"
  ELSE ""

\* a file is picked in the image field of an open dialog: handleFileChange,
\* with devApi's uploadImage, which sends the file and no category
handleFileChange(c, file) ==
  LET p == admin[c] IN
  /\ p.tab \in ListTabs
  /\ file.present
  /\ IF validateImageFile(file) # ""
     THEN /\ admin' = [admin EXCEPT
                        ![c].field = Field(validateImageFile(file), @.url),
                        ![c].toast = validateImageFile(file)]
          /\ UNCHANGED <<TOKEN, files, dirs, now, req, res>>
     ELSE IF ~env.DEV
     THEN /\ admin' = [admin EXCEPT ![c].field = Field(DevApiError, @.url),
                                    ![c].toast = DevApiError]
          /\ UNCHANGED <<TOKEN, files, dirs, now, req, res>>
     ELSE /\ Upload(<<OrElse(DEV_TOKEN, <<>>)>>, <<>>, file)
          /\ admin' = IF res'.status = 200
                      THEN [admin EXCEPT
                             ![c].field = Field("", <<res'.publicPath>>),
                             ![c].toast = "Image uploaded successfully!"]
                      ELSE [admin EXCEPT
                             ![c].field = Field(res'.error, @.url),
                             ![c].toast = res'.error]
  /\ UNCHANGED <<sessions, env, hero>>

----------------------------------------------------------------------------
(* Sessions: express-session and the login, logout and status routes    *)

\* the session cookies of two browsers
Cookies == {1, 2}

\* a value of the login body: a string, another JSON value, or absent
Given(s) == [kind |-> "string", s |-> s]
NotText == [kind |-> "number", s |-> <<>>]
NotGiven == [kind |-> "missing", s |-> <<>>]

\* req.body: an object with these two values, or no object at all
Body(username, password) == [object |-> TRUE, username |-> username, password |-> password]
NoBody == [object |-> FALSE, username |-> NotGiven, password |-> NotGiven]

\* what a session holds; a cookie the store does not know, and a browser
\* without a cookie, get a new session that holds nothing
SessionOf(isAuthenticated, isAdmin, user) ==
  [isAuthenticated |-> isAuthenticated, isAdmin |-> isAdmin, user |-> user]
NoSession == SessionOf(FALSE, FALSE, <<>>)

AdminUser == [id |-> "admin", username |-> "admin", role |-> "admin"]

ApiRequest(op, cookie, body) == [op |-> op, cookie |-> cookie, body |-> body]

\* status, message, and the JSON the status routes answer with
ApiResponse(status, message, user, isAdmin) ==
  [status |-> status, message |-> message, user |-> user, isAdmin |-> isAdmin]

\* loginSchema.parse: both values are strings
loginSchema(body) ==
  body.object /\ body.username.kind = "string" /\ body.password.kind = "string"

\* the comparison with the password left out
Credentials_NameOnly(body) == body.username.s = Str("admin")

\* username === 'admin' && password === 'password'
Credentials(body) ==
  body.username.s = Str("admin") /\ body.password.s = Str("password")

\* req.session.destroy with the store keeping what it held
destroy_Nothing(session) == session

\* req.session.destroy
destroy(session) == NoSession

\* the isAuthenticated middleware
isAuthenticated(session) == session.isAuthenticated

\* POST /api/login
Login(k, body) ==
  /\ req' = ApiRequest("login", k, body)
  /\ IF ~loginSchema(body)
     THEN /\ res' = ApiResponse(400, "Invalid request data", <<>>, FALSE)
          /\ UNCHANGED sessions
     ELSE IF ~Credentials(body)
     THEN /\ res' = ApiResponse(401, "Invalid username or password", <<>>, FALSE)
          /\ UNCHANGED sessions
     ELSE /\ res' = ApiResponse(200, "Login successful", <<>>, FALSE)
          /\ sessions' = [sessions EXCEPT ![k] = SessionOf(TRUE, TRUE, <<AdminUser>>)]
  /\ UNCHANGED <<TOKEN, files, dirs, now, admin, env, hero>>

\* POST /api/logout
Logout(k) ==
  /\ req' = ApiRequest("logout", k, NoBody)
  /\ res' = ApiResponse(200, "Logged out successfully", <<>>, FALSE)
  /\ sessions' = [sessions EXCEPT ![k] = destroy(@)]
  /\ UNCHANGED <<TOKEN, files, dirs, now, admin, env, hero>>

\* GET /api/auth/user
AuthUser(k) ==
  /\ req' = ApiRequest("auth-user", k, NoBody)
  /\ res' = IF ~isAuthenticated(sessions[k])
            THEN ApiResponse(401, "Authentication required", <<>>, FALSE)
            ELSE ApiResponse(200, "", sessions[k].user, FALSE)
  /\ UNCHANGED <<TOKEN, files, dirs, now, admin, sessions, env, hero>>

\* GET /api/auth/admin
AuthAdmin(k) ==
  /\ req' = ApiRequest("auth-admin", k, NoBody)
  /\ res' = IF ~isAuthenticated(sessions[k])
            THEN ApiResponse(401, "Authentication required", <<>>, FALSE)
            ELSE ApiResponse(200, "",
                             IF sessions[k].isAdmin
                             THEN <<[id |-> "admin", role |-> "admin"]>> ELSE <<>>,
                             sessions[k].isAdmin)
  /\ UNCHANGED <<TOKEN, files, dirs, now, admin, sessions, env, hero>>

\* the cookie's maxAge passes, or the store loses the session
Expire(k) ==
  /\ sessions[k] # NoSession
  /\ sessions' = [sessions EXCEPT ![k] = NoSession]
  /\ UNCHANGED <<TOKEN, files, dirs, now, req, res, admin, env, hero>>

----------------------------------------------------------------------------
(* Start-up *)

\* LOCAL_ADMIN_TOKEN: unset, set to the empty string, or set
TokenSettings == {<<>>, <<<<>>>>, <<Secret>>}

\* the x-admin-token header: absent, empty, the token, another string
TokenHeaders == {<<>>, <<<<>>>>, <<Secret>>, <<Str("guess")>>}

Program(i, ord) == Rec(Id(0, i), <<ord>>, <<>>, <<Str(Alphabet[i])>>, <<>>)
Article(i) == Rec(Id(0, i), <<>>, <<>>, <<Str(Alphabet[i])>>, <<>>)

InitialFiles ==
  (DATA_DIR \o <<ProgramsJson>>) :> ArrayOf(<<Program(1, 0), Program(2, 1)>>)
  @@ (DATA_DIR \o <<NewsJson>>) :> ArrayOf(<<Article(1), Article(2)>>)

RECURSIVE Prefixes(_)
Prefixes(p) == IF p = <<>> THEN {<<>>} ELSE {p} \cup Prefixes(SubSeq(p, 1, Len(p) - 1))

\* mkdir(DATA_DIR), mkdir(UPLOAD_DIR), recursive
InitialDirs == Prefixes(DATA_DIR) \cup Prefixes(UPLOAD_DIR) \cup Prefixes(SRC_DATA_DIR)

InitServer ==
  /\ TOKEN \in TokenSettings
  /\ files = InitialFiles
  /\ dirs = InitialDirs
  /\ now = 0
  /\ res = NoResponse
  /\ admin = [c \in Clients |-> InitialPage]
  /\ sessions = [k \in Cookies |-> NoSession]
  /\ env = Development
  /\ hero = InitialHero

Init == InitServer /\ req = NoRequest

----------------------------------------------------------------------------
(* Spec: every endpoint, every token setting, a few requests of each kind *)

Photo == <<"Photo", Dot, "png">>
ImagePng == <<"image", Slash, "png">>

PublicPath(segs) == <<Slash, "uploads", Slash>> \o segs

Traversal == PublicPath(<<Dot, Dot, Slash, "data", Slash, "programs", Dot, "json">>)

SomeFiles == {NoFile, FileName(ProgramsJson), FileName(<<Dot, Dot, Slash, "programs", Dot, "json">>)}

SomeData ==
  {Undefined,
   ArrayOf(<<Program(2, 1), Program(1, 0), Program(3, 2)>>)}

SomeCategories == {<<>>, <<Str("hero")>>}

SomeUploads == {NoUpload, FilePart(Photo, ImagePng, 1, 1)}

SomePaths ==
  {<<>>,
   <<PublicPath(<<"hero", Slash, "photo", "-", "0", Dot, "png">>)>>,
   <<Traversal>>}

Next ==
  \/ \E t \in TokenHeaders, f \in SomeFiles, d \in SomeData : SaveJson(t, f, d) /\ UNCHANGED <<admin, sessions, env, hero>>
  \/ \E t \in TokenHeaders, f \in SomeFiles, d \in SomeData : DevServerSaveJson(t, f, d) /\ UNCHANGED <<admin, sessions, env, hero>>
  \/ \E t \in TokenHeaders, c \in SomeCategories, u \in SomeUploads : Upload(t, c, u) /\ UNCHANGED <<admin, sessions, env, hero>>
  \/ \E t \in TokenHeaders, u \in SomeUploads : DevServerUpload(t, u) /\ UNCHANGED <<admin, sessions, env, hero>>
  \/ \E t \in TokenHeaders, p \in SomePaths : DeleteUpload(t, p) /\ UNCHANGED <<admin, sessions, env, hero>>

Spec == Init /\ [][Next]_vars

\* the token is configured and the caller may or may not know it
InitAuth == Init /\ TOKEN = <<Secret>>

----------------------------------------------------------------------------
(* SpecUpload: uploads into every kind of category at several clock      *)
(* values, and deletions of what was uploaded and of paths elsewhere     *)

UploadCategories == {<<>>, <<Str("hero")>>, <<Str("avatars")>>}

StoredNames == {StorageFilename(Photo, t) : t \in 0..MaxClock}

DeletePaths ==
  {<<Traversal>>, <<<<Slash, "data", Slash, "programs", Dot, "json">>>>, <<PublicPath(<<"hero">>)>>}
  \cup {<<PublicPath(c \o <<Slash>> \o n)>> :
          c \in {Str("hero"), Str("misc"), Str("avatars")}, n \in StoredNames}

NextUpload ==
  \/ \E c \in UploadCategories, u \in SomeUploads : Upload(<<Secret>>, c, u) /\ UNCHANGED <<admin, sessions, env, hero>>
  \/ \E p \in DeletePaths : DeleteUpload(<<Secret>>, p) /\ UNCHANGED <<admin, sessions, env, hero>>
  \/ Tick /\ UNCHANGED <<admin, sessions, env, hero>>

SpecUpload == InitAuth /\ [][NextUpload]_vars

----------------------------------------------------------------------------
(* SpecStore: direct saves of programs.json with arrays of every length  *)
(* up to MaxBatch, saves of news.json with every arrangement of up to    *)
(* MaxSortLen records, and loads of both                                 *)

ProgramPool ==
  <<Program(3, 2), Program(1, 0), Program(2, 1), Program(4, 3), Program(1, 0), Program(2, 0), Program(3, 1)>>

ProgramBatches == {ArrayOf(SubSeq(ProgramPool, 1, k)) : k \in 0..MaxBatch}

Stamped == Rec(Id(0, 3), <<0>>, <<Str("Carol")>>, <<>>, <<DateValue(1)>>)
Dated == Rec(Id(0, 4), <<0>>, <<Str("Bob")>>, <<>>, <<IsoString(1)>>)

NewsPool == {Article(1), Article(2), Stamped, Dated}

Arrangements(S, n) ==
  {a \in UNION {[1..k -> S] : k \in 0..n} : \A i, j \in DOMAIN a : i # j => a[i] # a[j]}

NewsBatches ==
  {ArrayOf(a) : a \in Arrangements(NewsPool, MaxSortLen)} \cup {ArrayOf(<<Article(2), Article(2)>>)}

NextStore ==
  \/ \E d \in ProgramBatches \cup {ObjectValue, Undefined} : SaveJson(<<Secret>>, FileName(ProgramsJson), d) /\ UNCHANGED <<admin, sessions, env, hero>>
  \/ \E d \in NewsBatches : SaveJson(<<Secret>>, FileName(NewsJson), d) /\ UNCHANGED <<admin, sessions, env, hero>>
  \/ \E d \in {ArrayOf(<<Article(1)>>)} : DevServerSaveJson(<<Secret>>, FileName(NewsJson), d) /\ UNCHANGED <<admin, sessions, env, hero>>
  \/ \E n \in {ProgramsJson, NewsJson, MembersJson} : LoadJson(n) /\ UNCHANGED <<admin, sessions, env, hero>>

SpecStore == InitAuth /\ [][NextStore]_vars

----------------------------------------------------------------------------
(* SpecAdmin: one admin page switching between the programs and news   *)
(* lists, reordering, saving the order and deleting rows, against the   *)
(* save endpoint of registerRoutes                                      *)

\* Math.random().toString(36).substr(2, 9)
Randoms == {7}

Rows(c) == Ids(Displayed(admin[c]))

\* the row at the top of the list and the row at its bottom
Top(c) == {Displayed(admin[c])[i].id : i \in {1} \cap DOMAIN Displayed(admin[c])}
Bottom(c) ==
  {Displayed(admin[c])[i].id : i \in {Len(Displayed(admin[c]))} \cap DOMAIN Displayed(admin[c])}

NextAdmin ==
  \/ \E tab \in ListTabs \cup {"members"} : SwitchTab(1, tab)
  \/ Reload(1)
  \/ Refetch(1)
  \/ \E active, over \in Rows(1) : handleDragEnd(1, active, over)
  \/ SaveOrder(1)
  \/ \E id \in Rows(1) : deleteMutation(1, id)
  \/ saveToJson(1)

SpecAdmin == InitAuth /\ [][NextAdmin]_vars

----------------------------------------------------------------------------
(* SpecRace: two admin pages on the programs list, one adding, editing   *)
(* and deleting, the other reordering the list it loaded, while a third  *)
(* party saves programs.json directly with arrays at and over the limit, *)
(* saves it through the standalone dev server, and deletes it through    *)
(* the upload endpoint                                                   *)

ThreePrograms == <<Program(1, 0), Program(2, 1), Program(3, 2)>>

\* both pages have the programs tab open and its list loaded
ProgramsPage ==
  [InitialPage EXCEPT !.tab = "programs", !.cache["programs"] = <<ThreePrograms>>]

InitRace ==
  /\ TOKEN = <<Secret>>
  /\ files = [InitialFiles EXCEPT ![PathJoin(DATA_DIR, ProgramsJson)] = ArrayOf(ThreePrograms)]
  /\ dirs = InitialDirs
  /\ now = 0
  /\ req = NoRequest
  /\ res = NoResponse
  /\ admin = [c \in Clients |-> ProgramsPage]
  /\ sessions = [k \in Cookies |-> NoSession]
  /\ env = Development
  /\ hero = InitialHero

FullBatches == {ArrayOf(SubSeq(ProgramPool, 1, k)) : k \in MaxPrograms..MaxBatch}

NextRace ==
  \/ \E target \in {<<>>} \cup {<<id>> : id \in Top(1)}, r \in Randoms :
       saveMutation(1, target, Form(<<Str("Dave")>>, <<0>>), r)
  \/ \E id \in Top(1) : deleteMutation(1, id)
  \/ saveToJson(1)
  \/ \E active \in Bottom(2), over \in Top(2) : handleDragEnd(2, active, over)
  \/ SaveOrder(2)
  \/ \E d \in FullBatches \cup {ObjectValue} :
       SaveJson(<<Secret>>, FileName(ProgramsJson), d) /\ UNCHANGED <<admin, sessions, env, hero>>
  \/ DevServerSaveJson(<<Secret>>, FileName(ProgramsJson),
                       ArrayOf(SubSeq(ProgramPool, 1, MaxBatch))) /\ UNCHANGED <<admin, sessions, env, hero>>
  \/ DeleteUpload(<<Secret>>, <<Traversal>>) /\ UNCHANGED <<admin, sessions, env, hero>>

SpecRace == InitRace /\ [][NextRace]_vars

----------------------------------------------------------------------------
(* SpecDialogs: two admin pages that have loaded every list, editing    *)
(* records through the dialogs some time after the records were made:   *)
(* each edits a member of its own, the first also programs and news,    *)
(* each dialog loading the collection and saving it in a later step     *)

\* memberClasses.json: the class without roles and a class with roles
ActiveClass == Rec(Id(0, 8), <<0>>, <<ActiveMember>>, <<>>, <<>>)
OfficerClass == Rec(Id(0, 9), <<1>>, <<Str("Dave")>>, <<>>, <<>>)
TwoClasses == <<ActiveClass, OfficerClass>>

Member(i, ord) ==
  MemberRec(Id(0, i), <<ord>>, <<Str(Alphabet[i])>>, <<>>, <<ActiveClass.id>>, <<IsoString(0)>>)

TwoMembers == <<Member(1, 0), Member(2, 1)>>

\* a record with the timestamp and the displayOrder it was stored with
WithStamp(r, ord) == [r EXCEPT !.updatedAt = <<IsoString(0)>>, !.displayOrder = <<ord>>]

DialogFiles ==
  (PathJoin(DATA_DIR, ProgramsJson) :>
     ArrayOf(<<WithStamp(Program(1, 0), 0), WithStamp(Program(2, 1), 1)>>))
  @@ (PathJoin(DATA_DIR, NewsJson) :>
     ArrayOf(<<WithStamp(Article(1), 0), WithStamp(Article(2), 1)>>))
  @@ (PathJoin(DATA_DIR, MembersJson) :> ArrayOf(TwoMembers))
  @@ (PathJoin(DATA_DIR, ClassesJson) :> ArrayOf(TwoClasses))

\* the members tab is open, every query has its data
LoadedPage ==
  [InitialPage EXCEPT
     !.cache = [t \in DataTabs |-> <<DialogFiles[PathJoin(DATA_DIR, TabFile(t))].items>>]]

InitDialogs ==
  /\ TOKEN = <<Secret>>
  /\ files = DialogFiles
  /\ dirs = InitialDirs
  /\ now = 1
  /\ req = NoRequest
  /\ res = NoResponse
  /\ admin = [c \in Clients |-> LoadedPage]
  /\ sessions = [k \in Cookies |-> NoSession]
  /\ env = Development
  /\ hero = InitialHero

\* the name each page's user types into the dialog
TypedName(c) == <<Str(Alphabet[c + 2])>>

\* the member a page's user edits, once the page has loaded it
MemberRows(c) ==
  IF admin[c].cache["members"] = <<>> THEN {}
  ELSE Ids(admin[c].cache["members"][1]) \cap {Id(0, c)}

NextDialogs ==
  \/ \E tab \in DataTabs : SwitchTab(1, tab)
  \/ \E c \in Clients : \E member \in MemberRows(c) :
       MemberDialog_saveMutation(c, <<member>>,
                                 MemberForm(TypedName(c), <<0>>, <<>>, <<ActiveClass.id>>), 7)
  \/ \E id \in Top(1), ord \in {<<>>, <<0>>} :
       saveMutation(1, <<id>>, Form(TypedName(1), ord), 7)
  \/ \E c \in Clients : saveToJson(c)

SpecDialogs == InitDialogs /\ [][NextDialogs]_vars

----------------------------------------------------------------------------
(* SpecMembers: one admin page on the members tab, its lists loaded,    *)
(* adding a member and editing the first one with every kind of name,   *)
(* role and class in the form; or else the page of admin.tsx is the     *)
(* one that is open, with its member modal                              *)

\* a member of the class without roles and an officer with a role
ValidMembers ==
  <<MemberRec(Id(0, 1), <<0>>, <<Str("Alice")>>, <<>>, <<ActiveClass.id>>, <<IsoString(0)>>),
    MemberRec(Id(0, 2), <<1>>, <<Str("Bob")>>, <<Str("Chair")>>, <<OfficerClass.id>>, <<IsoString(0)>>)>>

MemberFiles ==
  InitialFiles
  @@ (PathJoin(DATA_DIR, MembersJson) :> ArrayOf(ValidMembers))
  @@ (PathJoin(DATA_DIR, ClassesJson) :> ArrayOf(TwoClasses))

MembersPage ==
  [InitialPage EXCEPT !.cache["members"] = <<ValidMembers>>,
                      !.cache["classes"] = <<TwoClasses>>]

\* a page that is not open in any browser
ClosedPage == [InitialPage EXCEPT !.tab = "closed"]

InitMembers ==
  /\ TOKEN = <<Secret>>
  /\ files = MemberFiles
  /\ dirs = InitialDirs
  /\ now = 1
  /\ req = NoRequest
  /\ res = NoResponse
  /\ admin \in {[c \in Clients |-> IF c = open THEN MembersPage ELSE ClosedPage] :
                  open \in Clients}
  /\ sessions = [k \in Cookies |-> NoSession]
  /\ env = Development
  /\ hero = InitialHero

\* what can be typed: nothing, a blank, a word
TypedNames == {<<<<>>>>, <<<<" ">>>>, <<Str("Carol")>>}
TypedRoles == {<<<<>>>>, <<<<" ">>>>, <<Str("Chair")>>}

\* the class select: nothing chosen, or either class
ClassChoices == {<<>>, <<ActiveClass.id>>, <<OfficerClass.id>>}

MemberForms ==
  {MemberForm(n, <<0>>, r, k) : n \in TypedNames, r \in TypedRoles, k \in ClassChoices}

\* the first member the page has loaded
FirstMember(c) ==
  IF admin[c].cache["members"] = <<>> \/ admin[c].cache["members"][1] = <<>> THEN {}
  ELSE {<<admin[c].cache["members"][1][1].id>>}

NextMembers ==
  \/ \E form \in MemberForms, member \in FirstMember(1) :
       MemberDialog_saveMutation(1, member, form, 7)
  \/ \E form \in MemberForms :
       /\ Id(now, 7) \notin Ids(Loaded("members"))
       /\ MemberDialog_saveMutation(1, <<>>, form, 7)
  \/ \E form \in MemberForms : handleSave(2, form)
  \/ saveToJson(1)
  \/ Refetch(1)

SpecMembers == InitMembers /\ [][NextMembers]_vars

----------------------------------------------------------------------------
(* The Members tab with its add and edit dialogs, its delete buttons and
   a clock: the ids that generateId hands out *)

\* the values of Math.random().toString(36).substr(2, 9)
IdRandoms == {7, 8}

CarolForm == MemberForm(<<Str("Carol")>>, <<0>>, <<<<>>>>, <<ActiveClass.id>>)

OneMember == SubSeq(ValidMembers, 1, 1)

InitIds ==
  /\ TOKEN = <<Secret>>
  /\ files = [MemberFiles EXCEPT ![PathJoin(DATA_DIR, MembersJson)] = ArrayOf(OneMember)]
  /\ dirs = InitialDirs
  /\ now = 0
  /\ req = NoRequest
  /\ res = NoResponse
  /\ sessions = [k \in Cookies |-> NoSession]
  /\ env = Development
  /\ hero = InitialHero
  /\ admin = [c \in Clients |->
                IF c = 1 THEN [MembersPage EXCEPT !.cache["members"] = <<OneMember>>]
                ELSE ClosedPage]

NextIds ==
  \/ \E r \in IdRandoms :
       /\ Len(files[PathJoin(DATA_DIR, MembersJson)].items) < MaxMembers
       /\ MemberDialog_saveMutation(1, <<>>, CarolForm, r)
  \/ \E member \in FirstMember(1) : MemberDialog_saveMutation(1, member, CarolForm, 7)
  \/ \E id \in ShownMembers(admin[1]) : MemberManagement_deleteMutation(1, id)
  \/ saveToJson(1)
  \/ Refetch(1)
  \/ Tick /\ UNCHANGED <<admin, sessions, env, hero>>

SpecIds == InitIds /\ [][NextIds]_vars

----------------------------------------------------------------------------
(* One admin page with every list loaded, against a server whose token   *)
(* is empty or is not set: every mutation of the page fails             *)

InitFailing ==
  /\ TOKEN \in TokenSettings \ {DEV_TOKEN}
  /\ files = DialogFiles
  /\ dirs = InitialDirs
  /\ now = 1
  /\ req = NoRequest
  /\ res = NoResponse
  /\ admin = [c \in Clients |-> IF c = 1 THEN LoadedPage ELSE ClosedPage]
  /\ sessions = [k \in Cookies |-> NoSession]
  /\ env = Development
  /\ hero = InitialHero

NextFailing ==
  \/ \E tab \in ListTabs \cup {"members"} : SwitchTab(1, tab)
  \/ \E active \in Bottom(1), over \in Top(1) : handleDragEnd(1, active, over)
  \/ SaveOrder(1)
  \/ \E id \in Top(1) : deleteMutation(1, id)
  \/ \E target \in {<<id>> : id \in Top(1)} \cup (IF admin[1].tab = "programs" THEN {<<>>} ELSE {}) :
       saveMutation(1, target, Form(<<Str("Dave")>>, <<0>>), 7)
  \/ \E member \in FirstMember(1) : MemberDialog_saveMutation(1, member, CarolForm, 7)
  \/ \E id \in ShownMembers(admin[1]) : MemberManagement_deleteMutation(1, id)
  \/ \E active, over \in ShownMembers(admin[1]) :
       MemberManagement_handleDragEnd(1, <<ActiveMember>>, active, over)
  \/ MemberManagement_saveOrderMutation(1)
  \/ saveToJson(1)

SpecFailing == InitFailing /\ [][NextFailing]_vars

----------------------------------------------------------------------------
(* Every environment: the server started with NODE_ENV not set or set to *)
(* one of three names, the page built for development or not; requests   *)
(* with the right token to both servers, and the page's own saves        *)

NodeEnvs == {<<>>, <<"development">>, <<"production">>, <<"test">>}

Environments == {Environment(n, d) : n \in NodeEnvs, d \in BOOLEAN}

InitEnv ==
  /\ TOKEN = <<Secret>>
  /\ files = InitialFiles
  /\ dirs = InitialDirs
  /\ now = 0
  /\ req = NoRequest
  /\ res = NoResponse
  /\ admin = [c \in Clients |->
                IF c = 1
                THEN [InitialPage EXCEPT
                        !.tab = "programs",
                        !.cache["programs"] = <<InitialFiles[PathJoin(DATA_DIR, ProgramsJson)].items>>]
                ELSE ClosedPage]
  /\ sessions = [k \in Cookies |-> NoSession]
  /\ env \in Environments
  /\ hero = InitialHero

NextEnv ==
  \/ \E d \in SomeData : SaveJson(<<Secret>>, FileName(ProgramsJson), d) /\ UNCHANGED <<admin, sessions, env, hero>>
  \/ \E c \in SomeCategories : Upload(<<Secret>>, c, FilePart(Photo, ImagePng, 1, 1)) /\ UNCHANGED <<admin, sessions, env, hero>>
  \/ \E p \in SomePaths : DeleteUpload(<<Secret>>, p) /\ UNCHANGED <<admin, sessions, env, hero>>
  \/ \E d \in SomeData : DevServerSaveJson(<<Secret>>, FileName(ProgramsJson), d) /\ UNCHANGED <<admin, sessions, env, hero>>
  \/ DevServerUpload(<<Secret>>, FilePart(Photo, ImagePng, 1, 1)) /\ UNCHANGED <<admin, sessions, env, hero>>
  \/ \E id \in Top(1) : deleteMutation(1, id)
  \/ saveToJson(1)
  \/ handleFileChange(1, FilePart(Photo, ImagePng, 1, 1))

SpecEnv == InitEnv /\ [][NextEnv]_vars

----------------------------------------------------------------------------
(* The Members tab with two members in each of two classes: drags within *)
(* a class section, Save Order, deletes and refetches                    *)

FourMembers ==
  <<MemberRec(Id(0, 1), <<0>>, <<Str("Alice")>>, <<>>, <<ActiveClass.id>>, <<IsoString(0)>>),
    MemberRec(Id(0, 2), <<1>>, <<Str("Bob")>>, <<>>, <<ActiveClass.id>>, <<IsoString(0)>>),
    MemberRec(Id(0, 3), <<0>>, <<Str("Carol")>>, <<Str("Chair")>>, <<OfficerClass.id>>, <<IsoString(0)>>),
    MemberRec(Id(0, 4), <<1>>, <<Str("Dave")>>, <<Str("Chair")>>, <<OfficerClass.id>>, <<IsoString(0)>>)>>

InitOrder ==
  /\ TOKEN = <<Secret>>
  /\ files = [MemberFiles EXCEPT ![PathJoin(DATA_DIR, MembersJson)] = ArrayOf(FourMembers)]
  /\ dirs = InitialDirs
  /\ now = 1
  /\ req = NoRequest
  /\ res = NoResponse
  /\ admin = [c \in Clients |->
                IF c = 1 THEN [MembersPage EXCEPT !.cache["members"] = <<FourMembers>>]
                ELSE ClosedPage]
  /\ sessions = [k \in Cookies |-> NoSession]
  /\ env = Development
  /\ hero = InitialHero

NextOrder ==
  \/ \E i \in DOMAIN TwoClasses : \E active, over \in ShownMembers(admin[1]) :
       MemberManagement_handleDragEnd(1, TwoClasses[i].name, active, over)
  \/ MemberManagement_saveOrderMutation(1)
  \/ \E id \in ShownMembers(admin[1]) : MemberManagement_deleteMutation(1, id)
  \/ saveToJson(1)
  \/ Refetch(1)

SpecOrder == InitOrder /\ [][NextOrder]_vars

----------------------------------------------------------------------------
(* The Hero carousel: auto-advance, indicator clicks, and the hero image *)
(* query delivering lists of several lengths, with and without active    *)
(* images                                                                *)

HeroImage(src, ord, active) == [src |-> src, displayOrder |-> <<ord>>, isActive |-> active]

HeroLists ==
  {<<>>,
   <<HeroImage(4, 0, TRUE)>>,
   <<HeroImage(4, 0, FALSE)>>,
   <<HeroImage(5, 1, TRUE), HeroImage(4, 0, TRUE), HeroImage(6, 2, FALSE)>>,
   <<HeroImage(4, 0, TRUE), HeroImage(5, 1, TRUE), HeroImage(6, 2, TRUE), HeroImage(7, 3, TRUE)>>}

NextHero ==
  \/ \E list \in HeroLists : HeroImagesLoaded(list)
  \/ AutoAdvance
  \/ \E index \in 0..3 : goToSlide(index)
  \/ ResumePlaying
  \/ SlideTimeout

SpecHero == InitAuth /\ [][NextHero]_vars

----------------------------------------------------------------------------
(* SpecFilter: one image file of any name, type and size, sent straight *)
(* to the upload endpoint or picked in the admin page's image field     *)

UploadNames ==
  {Photo,
   <<"Photo", Dot, "PNG">>,
   <<"photo", Dot, "exe">>,
   <<"photo", Dot, "png", "-", "old">>,
   <<"photo">>}

UploadTypes ==
  {ImagePng,
   <<"image", Slash, "gif">>,
   <<"text", Slash, "plain">>,
   <<"text", Slash, "x", "-", "png">>}

\* megabytes
UploadSizes == {4, 5, 6, 10, 11}

ArrivingUpload(upload) ==
  Request("arriving", <<Secret>>, NoFile, Undefined, <<>>, upload, <<>>)

InitFilter ==
  /\ TOKEN = <<Secret>>
  /\ files = InitialFiles
  /\ dirs = InitialDirs
  /\ now = 0
  /\ res = NoResponse
  /\ admin = [c \in Clients |-> [InitialPage EXCEPT !.tab = "programs"]]
  /\ sessions = [k \in Cookies |-> NoSession]
  /\ env = Development
  /\ hero = InitialHero
  /\ req \in {ArrivingUpload(FilePart(n, t, z, 1)) :
                n \in UploadNames, t \in UploadTypes, z \in UploadSizes}

NextFilter ==
  /\ req.op = "arriving"
  /\ \/ \E c \in UploadCategories : Upload(req.token, c, req.upload) /\ UNCHANGED <<admin, sessions, env, hero>>
     \/ handleFileChange(1, req.upload)

SpecFilter == InitFilter /\ [][NextFilter]_vars

----------------------------------------------------------------------------
(* SpecCollide: files of one original name and different content, and a *)
(* file whose name differs in case only, uploaded into one category at  *)
(* the same and at different clock values, through either server        *)

SameNameUploads ==
  {FilePart(Photo, ImagePng, 1, 1),
   FilePart(Photo, ImagePng, 1, 2),
   FilePart(<<"photo", Dot, "png">>, ImagePng, 1, 1)}

NextCollide ==
  \/ \E u \in SameNameUploads : Upload(<<Secret>>, <<Str("hero")>>, u) /\ UNCHANGED <<admin, sessions, env, hero>>
  \/ \E u \in {v \in SameNameUploads : v.originalname = Photo} :
       DevServerUpload(<<Secret>>, u) /\ UNCHANGED <<admin, sessions, env, hero>>
  \/ Tick /\ UNCHANGED <<admin, sessions, env, hero>>

SpecCollide == InitAuth /\ [][NextCollide]_vars

----------------------------------------------------------------------------
(* SpecSession: two browsers logging in with every kind of body,        *)
(* logging out and asking for their status, in any order                *)

LoginValues ==
  {Given(Str("admin")), Given(Str("password")), Given(Str("guess")), NotText, NotGiven}

LoginBodies == {NoBody} \cup {Body(u, p) : u, p \in LoginValues}

NextSession ==
  \/ \E k \in Cookies, b \in LoginBodies : Login(k, b)
  \/ \E k \in Cookies : Logout(k)
  \/ \E k \in Cookies : AuthUser(k)
  \/ \E k \in Cookies : AuthAdmin(k)
  \/ \E k \in Cookies : Expire(k)

SpecSession == Init /\ [][NextSession]_vars

----------------------------------------------------------------------------
(* SpecNames: one save request with any file name of up to MaxNameLen    *)
(* tokens, handled by either server                                      *)

NameTokens == {"a", Dot, Slash, "json"}

AllNames == UNION {[1..k -> NameTokens] : k \in 0..MaxNameLen}

Arriving(file, data) == Request("arriving", <<Secret>>, file, data, <<>>, NoUpload, <<>>)

InitNames ==
  /\ InitServer
  /\ TOKEN = <<Secret>>
  /\ req \in {Arriving(f, d) : f \in {FileName(n) : n \in AllNames} \cup {NoFile},
                                d \in {Undefined, ArrayOf(<<Article(1)>>)}}

NextNames ==
  /\ req.op = "arriving"
  /\ \/ SaveJson(req.token, req.file, req.data) /\ UNCHANGED <<admin, sessions, env, hero>>
     \/ DevServerSaveJson(req.token, req.file, req.data) /\ UNCHANGED <<admin, sessions, env, hero>>

SpecNames == InitNames /\ [][NextNames]_vars

----------------------------------------------------------------------------
(* SpecSort: one save of members.json with any array of up to MaxSortLen *)
(* records, with and without displayOrder, name and title                *)

SortRecords ==
  {Rec(Id(0, 0), o, n, t, <<>>) :
     o \in {<<>>, <<0>>, <<1>>},
     n \in {<<>>, <<Str("Alice")>>, <<Str("Bob")>>},
     t \in {<<>>, <<Str("Carol")>>}}

SortInputs == {ArrayOf(a) : a \in UNION {[1..k -> SortRecords] : k \in 0..MaxSortLen}}

InitSort ==
  /\ InitServer
  /\ TOKEN = <<Secret>>
  /\ req \in {Arriving(FileName(MembersJson), d) : d \in SortInputs}

NextSort ==
  /\ req.op = "arriving"
  /\ SaveJson(req.token, req.file, req.data) /\ UNCHANGED <<admin, sessions, env, hero>>

SpecSort == InitSort /\ [][NextSort]_vars

----------------------------------------------------------------------------
(* Claims *)

UnderUploads(p) == Len(p) > Len(UPLOAD_DIR) /\ SubSeq(p, 1, Len(UPLOAD_DIR)) = UPLOAD_DIR

\* C1: DELETE /dev/upload never removes a file that lies outside the uploads
\* directory: across a delete request every such file stays on disk.
C1_DeleteStaysUnderUploads ==
  [][req'.op = "delete-upload" =>
       \A p \in DOMAIN files : ~UnderUploads(p) => p \in DOMAIN files']_vars

InvalidName(file) ==
  \/ file.kind = "missing"
  \/ /\ file.kind = "string"
     /\ \/ ~EndsWith(file.s, <<Dot, "json">>)
        \/ Includes(file.s, <<Dot, Dot>>)
        \/ Includes(file.s, <<Slash>>)

IsSave(r) == r.op \in {"save-json", "dev-save-json"}

\* C2: a save whose file name does not end in ".json", or holds ".." or "/",
\* is answered 400 "invalid file" whatever the content, and no file changes.
C2_InvalidNameRejected ==
  [][(IsSave(req') /\ InvalidName(req'.file)) =>
       (res' = Fail(400, "invalid file") /\ files' = files)]_vars

C2_Witness ==
  /\ IsSave(req)
  /\ req.file = FileName(<<Dot, Dot, "json">>)
  /\ req.content.kind = "array"
  /\ res = Fail(400, "invalid file")

ProgramsPath == DATA_DIR \o <<ProgramsJson>>

Occurrences(a, r) == Cardinality({i \in DOMAIN a : a[i] = r})

SameRecords(a, b) ==
  /\ Len(a) = Len(b)
  /\ \A i \in DOMAIN a : Occurrences(a, a[i]) = Occurrences(b, a[i])

IsProgramsSave(r) ==
  /\ r.op = "save-json"
  /\ r.token = TOKEN
  /\ r.file = FileName(ProgramsJson)
  /\ r.content.kind = "array"

\* C5: a save of programs.json with 5 or more records is rejected and the
\* disk stays as it was; with exactly 4 records it succeeds and the file then
\* holds those 4 records.
C5_ProgramsLimit ==
  [][IsProgramsSave(req') =>
       /\ Len(req'.content.items) >= 5 => (res'.status = 400 /\ files' = files)
       /\ Len(req'.content.items) = 4 =>
            /\ res' = Ok(4)
            /\ files'[ProgramsPath].kind = "array"
            /\ SameRecords(files'[ProgramsPath].items, req'.content.items)]_vars

C5_Witness ==
  /\ IsProgramsSave(req)
  /\ Len(req.content.items) = 5
  /\ res.status = 400
  /\ Len(files[ProgramsPath].items) = 4

\* the records hold JSON values only: no Date object
PlainJson(v) ==
  \A i \in DOMAIN v.items :
    v.items[i].updatedAt = <<>> \/ ~v.items[i].updatedAt[1].isDate

MembersPath == DATA_DIR \o <<MembersJson>>

SavedArray(r, s) == r.op = "save-json" /\ s.status = 200 /\ r.content.kind = "array"

Ordered(a) ==
  \A i, j \in DOMAIN a : i < j =>
    /\ OrZero(a[i].displayOrder) <= OrZero(a[j].displayOrder)
    /\ OrZero(a[i].displayOrder) = OrZero(a[j].displayOrder) =>
         Rank(SecondaryKey(a[i])) <= Rank(SecondaryKey(a[j]))

\* C8: after a successful save of an array the stored array is in ascending
\* displayOrder (a missing one counting as 0), and records sharing a
\* displayOrder are in ascending order of name, or of title without a name.
C8_StoredOrdered ==
  SavedArray(req, res) => Ordered(files[PathJoin(DATA_DIR, req.file.s)].items)

DistinctKeys(a) ==
  \A i, j \in DOMAIN a : i # j => SecondaryKey(a[i]) # SecondaryKey(a[j])

Permuted(a) == {[i \in DOMAIN a |-> a[f[i]]] : f \in Permutations(DOMAIN a)}

\* C9: for records with pairwise different secondary keys, saving any
\* permutation of the saved array would have stored the same order.
C9_SortDeterministic ==
  (SavedArray(req, res) /\ DistinctKeys(req.content.items)) =>
    \A p \in Permuted(req.content.items) :
      DataToSave(ArrayOf(p)) = files[PathJoin(DATA_DIR, req.file.s)]

NotConfigured == TOKEN = <<>> \/ TOKEN = <<<<>>>>

\* C3: a request to a dev endpoint whose x-admin-token is not the configured
\* token, and any request when none is configured, is answered 401
\* "unauthorized" whatever else it carries, and no file or directory changes.
C3_Unauthorized ==
  [][(req'.op # "none" /\ (NotConfigured \/ req'.token # TOKEN)) =>
       (res' = Fail(401, "unauthorized") /\ files' = files /\ dirs' = dirs)]_vars

C3_Witness ==
  /\ TOKEN = <<Secret>>
  /\ req.op = "upload"
  /\ req.token = <<Str("guess")>>
  /\ req.upload.present
  /\ res.status = 401

\* C10: after a successful upload the returned publicPath is
\* /uploads/<category>/<filename>, with misc for an unrecognized or missing
\* category, and names the file that was stored.
C10_PublicPathNamesStoredFile ==
  (req.op = "upload" /\ res.status = 200) =>
    /\ res.publicPath = PublicPath(FinalCategory(req.category) \o <<Slash>>
                           \o LastSegment(res.publicPath))
    /\ Exists(PathJoin(PUBLIC_DIR, res.publicPath))

----------------------------------------------------------------------------
\* C4: whatever the admin pages and direct requests do, in whatever order,
\* programs.json under the data directory never holds an array of more
\* than 4 records
C4_AtMostFourPrograms ==
  (Exists(ProgramsPath) /\ files[ProgramsPath].kind = "array")
    => Len(files[ProgramsPath].items) <= MaxPrograms

\* the file is full, the adding page was refused a fifth program after the
\* reordering page saved its order, and the save endpoint has just refused
\* a direct save
C4_Witness ==
  /\ Exists(ProgramsPath)
  /\ files[ProgramsPath].kind = "array"
  /\ Len(files[ProgramsPath].items) = MaxPrograms
  /\ admin[1].toast = "Maximum of 4 programs allowed"
  /\ admin[2].toast = "Order saved"
  /\ req.op = "save-json"
  /\ Len(req.content.items) > MaxPrograms
  /\ res.status = 400

\* a step in which a page's Save Order succeeded
SavedOrder(c) ==
  /\ admin[c].hasReordered
  /\ ~admin'[c].hasReordered
  /\ admin'[c].tab = admin[c].tab
  /\ res'.status = 200

\* C7: when Save Order succeeds, the stored collection is the list that
\* was shown, in that order, and each record's displayOrder is its
\* 0-based index
C7_SaveOrderStoresShownOrder ==
  [][\A c \in Clients :
       SavedOrder(c) =>
         LET shown == admin[c].reordered
             stored == files'[PathJoin(DATA_DIR, TabFile(admin[c].tab))] IN
         /\ stored.kind = "array"
         /\ Len(stored.items) = Len(shown)
         /\ \A i \in 1..Len(shown) :
              /\ stored.items[i].id = shown[i].id
              /\ stored.items[i].displayOrder = <<i - 1>>]_vars

----------------------------------------------------------------------------
\* the extension and the MIME type are of the allowed image set
AllowedExtension(name) ==
  ToLowerCase(extname(name)) \in {<<Dot, t>> : t \in allowedTypes}

AllowedMime(mimetype) == mimetype \in {<<"image", Slash, t>> : t \in allowedTypes}

\* C11: an upload is stored only if its extension and its MIME type are
\* both of the allowed image set
C11_StoredOnlyIfImage ==
  [][files' # files =>
       /\ AllowedExtension(req'.upload.originalname)
       /\ AllowedMime(req'.upload.mimetype)]_vars

\* C12: an upload of more than 5MB stores nothing, by whichever way it
\* was sent, and one of 4MB with an allowed extension and type is stored
C12_FiveMegabyteCeiling ==
  [][/\ req.upload.size > MAX_FILE_SIZE => files' = files
     /\ (/\ req.upload.size = 4
         /\ AllowedExtension(req.upload.originalname)
         /\ AllowedMime(req.upload.mimetype)) => (files' # files /\ res'.status = 200)]_vars

----------------------------------------------------------------------------
\* C13: every successful upload is stored under a name no stored file
\* has, so it never replaces an earlier upload
C13_UploadsNeverCollide ==
  [][(req'.op \in {"upload", "dev-upload"} /\ res'.status = 200 /\ now' = now)
       => DOMAIN files' # DOMAIN files]_vars

----------------------------------------------------------------------------
ExactPair(body) ==
  /\ body.object
  /\ body.username = Given(Str("admin"))
  /\ body.password = Given(Str("password"))

TwoStrings(body) ==
  body.object /\ body.username.kind = "string" /\ body.password.kind = "string"

\* C14: a login is answered 200 and marks the session authenticated and
\* admin exactly when the body carries the hardcoded pair; any other login
\* is answered 401 (two strings) or 400 and leaves every session as it was
C14_LoginOnlyByCredentials ==
  [][\A k \in Cookies, b \in LoginBodies :
       Login(k, b) =>
         /\ (res'.status = 200) <=> ExactPair(b)
         /\ ExactPair(b) =>
              /\ sessions'[k].isAuthenticated
              /\ sessions'[k].isAdmin
              /\ sessions'[k].user = <<AdminUser>>
         /\ ~ExactPair(b) =>
              /\ sessions' = sessions
              /\ res'.status = IF TwoStrings(b) THEN 401 ELSE 400]_vars

\* a session that is logged in has just been refused a login with a wrong
\* password, and is logged in still
C14_Witness ==
  /\ req.op = "login"
  /\ req.body = Body(Given(Str("admin")), Given(Str("guess")))
  /\ res.status = 401
  /\ sessions[req.cookie] = SessionOf(TRUE, TRUE, <<AdminUser>>)

\* C15: a logout leaves the session unauthenticated, only a successful
\* login on it makes it authenticated again, and the status routes answer
\* 401 for an unauthenticated session and the session's own data
\* otherwise, isAdmin being reported only with the session's admin flag
C15_StatusFollowsLoginAndLogout ==
  [][\A k \in Cookies :
       /\ Logout(k) => ~sessions'[k].isAuthenticated
       /\ (~sessions[k].isAuthenticated /\ sessions'[k].isAuthenticated) =>
            (req'.op = "login" /\ req'.cookie = k /\ res'.status = 200)
       /\ AuthUser(k) =>
            IF sessions[k].isAuthenticated
            THEN res'.status = 200 /\ res'.user = sessions[k].user
            ELSE res'.status = 401
       /\ AuthAdmin(k) =>
            IF sessions[k].isAuthenticated
            THEN res'.status = 200 /\ (res'.isAdmin <=> sessions[k].isAdmin)
            ELSE res'.status = 401]_vars

\* a browser that logged out is answered 401 while the other browser's
\* session is still logged in
C15_Witness ==
  /\ req.op \in {"auth-user", "auth-admin"}
  /\ res.status = 401
  /\ sessions[req.cookie] = NoSession
  /\ sessions[3 - req.cookie].isAuthenticated

----------------------------------------------------------------------------
\* C17: after a successful save the file holds the records of that save's
\* payload and no others (for a payload that is not an array: that value),
\* whatever it held before, and no other file changes; so of two
\* successive saves only what the second payload contains is left
C17_SaveReplacesWholeFile ==
  [][(req'.op = "save-json" /\ res'.status = 200) =>
       LET abs == PathJoin(DATA_DIR, req'.file.s) IN
         /\ abs \in DOMAIN files'
         /\ files'[abs].kind = req'.content.kind
         /\ IF req'.content.kind = "array"
            THEN SameRecords(files'[abs].items, req'.content.items)
            ELSE files'[abs] = req'.content
         /\ \A q \in (DOMAIN files \cup DOMAIN files') \ {abs} :
              q \in DOMAIN files /\ q \in DOMAIN files' /\ files'[q] = files[q]]_vars

\* a save of one program was acknowledged: of the two programs the file
\* held before, the one the payload does not contain is gone
C17_Witness ==
  /\ req.op = "save-json"
  /\ req.file = FileName(ProgramsJson)
  /\ req.content = ArrayOf(<<Program(3, 2)>>)
  /\ res = Ok(1)
  /\ files[ProgramsPath] = ArrayOf(<<Program(3, 2)>>)

----------------------------------------------------------------------------
DialogPath(c) == PathJoin(DATA_DIR, TabFile(admin[c].pending.tab))

\* C16: an acknowledged dialog save leaves the file holding exactly the
\* records the dialog computed from its own earlier load, so a change
\* another page saved in between is gone; the witness is the lost update:
\* both pages were told their edit was saved and only the second is there
C16_SaveStoresOwnLoad ==
  [][\A c \in Clients :
       (saveToJson(c) /\ res'.status = 200) =>
         SameRecords(files'[DialogPath(c)].items,
                     JsonRoundTrip(ArrayOf(admin[c].pending.toSave)).items)]_vars

\* page 1 renamed member 1, page 2 renamed member 2, both saves were
\* acknowledged, and member 1 has its old name again
C16_Witness ==
  /\ admin[1].toast = "updated" /\ admin[2].toast = "updated"
  /\ admin[1].pending = NoMutation /\ admin[2].pending = NoMutation
  /\ files[PathJoin(DATA_DIR, ProgramsJson)] = DialogFiles[PathJoin(DATA_DIR, ProgramsJson)]
  /\ files[PathJoin(DATA_DIR, NewsJson)] = DialogFiles[PathJoin(DATA_DIR, NewsJson)]
  /\ \E i, j \in DOMAIN files[MembersPath].items :
       /\ files[MembersPath].items[i] = Member(1, 0)
       /\ files[MembersPath].items[j].id = Id(0, 2)
       /\ files[MembersPath].items[j].name = TypedName(2)

----------------------------------------------------------------------------
\* a dialog of page c has loaded the collection and built the array it
\* is about to save
EditStep(c) == admin[c].pending.kind = "none" /\ admin'[c].pending.kind = "edit"

EditedTab(c) == admin'[c].pending.tab

\* the array as the save's JSON body carries it
WrittenBack(c) == JsonRoundTrip(ArrayOf(admin'[c].pending.toSave)).items

\* the fields no form carries: id and the timestamp; the member form has
\* no title, the other forms no name, the news form no displayOrder
KeepsUncarried(tab, old, new) ==
  /\ new.id = old.id
  /\ tab = "members" => new.title = old.title
  /\ tab # "members" => new.name = old.name
  /\ tab = "news" => new.displayOrder = old.displayOrder

OneEdited(old, new) ==
  /\ Len(new) = Len(old)
  /\ Cardinality({i \in DOMAIN old : new[i] # old[i]}) <= 1

----------------------------------------------------------------------------
StoredIds(f, tab) ==
  IF PathJoin(DATA_DIR, TabFile(tab)) \in DOMAIN f
  THEN Ids(f[PathJoin(DATA_DIR, TabFile(tab))].items)
  ELSE {}

\* C19: a page that reorders, deletes and saves the order creates no
\* record, so a record that is gone from the collection file, its deletion
\* acknowledged, is in the file after no later step, a Save Order of a
\* reorder that was pending at the deletion included
C19_DeletedStaysDeleted ==
  [][\A tab \in ListTabs : StoredIds(files', tab) \subseteq StoredIds(files, tab)]_vars

----------------------------------------------------------------------------
\* a delete request with the token for a path that begins with /uploads/
DeletesUnderUploads(r) ==
  /\ r.op = "delete-upload"
  /\ r.token = TOKEN
  /\ r.path # <<>>
  /\ StartsWith(r.path[1], <<Slash, "uploads", Slash>>)

\* C20: a delete of a path under /uploads/ at which no file exists is
\* answered 404 'file not found' and changes nothing on disk; when the file
\* exists the answer is 200 and that file, and no other, is removed
C20_DeleteMissingOrExisting ==
  [][(DeletesUnderUploads(req') /\ now' = now) =>
       IF PathJoin(PUBLIC_DIR, req'.path[1]) \in DOMAIN files
       THEN /\ res' = Ok(0)
            /\ DOMAIN files' = DOMAIN files \ {PathJoin(PUBLIC_DIR, req'.path[1])}
            /\ \A q \in DOMAIN files' : files'[q] = files[q]
       ELSE /\ res' = Fail(404, "file not found")
            /\ files' = files]_vars

----------------------------------------------------------------------------
\* C21: a save whose content is missing (the one value a request body can
\* bring that fails the serialize/parse cycle) is answered with an error,
\* 500 once token and file name are accepted, and no file changes, on
\* both servers
C21_UnserializableNotWritten ==
  [][(IsSave(req') /\ req'.content = Undefined) =>
       /\ res'.status >= 400
       /\ files' = files
       /\ (Truthy(TOKEN) /\ req'.token = TOKEN /\ req'.file.kind = "string"
           /\ ValidFile(req'.file)) => res'.status = 500]_vars

C21_Witness ==
  /\ req.op = "save-json"
  /\ Truthy(TOKEN) /\ req.token = TOKEN
  /\ req.file = FileName(ProgramsJson)
  /\ req.content = Undefined
  /\ res.status = 500
  /\ files = InitialFiles

----------------------------------------------------------------------------
ClassesPath == DATA_DIR \o <<ClassesJson>>

\* a name that is not blank and, outside the class named Active Member, a
\* role that is not blank
ValidMember(r, classes) ==
  /\ Trim(Text(r.name)) # <<>>
  /\ \/ Trim(Text(r.role)) # <<>>
     \/ \E i \in DOMAIN classes :
          r.memberClassId = <<classes[i].id>> /\ classes[i].name = <<ActiveMember>>

\* C22: either member dialog issues its save only for a form with such a
\* name and role, and every member in members.json, valid at the start,
\* is valid after every step of the page
C22_OnlyValidMembersSaved ==
  [][/\ (admin[1].pending.kind = "none" /\ admin'[1].pending.kind # "none")
          => \A i \in DOMAIN admin'[1].pending.toSave :
               ValidMember(admin'[1].pending.toSave[i], files[ClassesPath].items)
     /\ (req'.op = "api-admin-members" /\ req' # req)
          => ValidMember(req'.data.items[1], files[ClassesPath].items)
     /\ \A i \in DOMAIN files'[MembersPath].items :
          ValidMember(files'[MembersPath].items[i], files'[ClassesPath].items)]_vars

\* a member without a role was added to the class named Active Member
C22_Witness ==
  /\ admin[1].toast = "added"
  /\ \E i \in DOMAIN files[MembersPath].items :
       /\ files[MembersPath].items[i].id = Id(1, 7)
       /\ files[MembersPath].items[i].name = <<Str("Carol")>>
       /\ files[MembersPath].items[i].role = <<<<>>>>
       /\ files[MembersPath].items[i].memberClassId = <<ActiveClass.id>>

IdsOf(arr) == [i \in DOMAIN arr |-> arr[i].id]

NoDuplicateIds(arr) == \A i, j \in DOMAIN arr : i # j => arr[i].id # arr[j].id

C24_FailedMutationShowsError ==
  [][((saveToJson(1) \/ SaveOrder(1) \/ MemberManagement_saveOrderMutation(1))
        /\ res'.status # 200)
       => /\ admin'[1].toast = res'.error
          /\ admin'[1].hasReordered = admin[1].hasReordered
          /\ admin'[1].reordered = admin[1].reordered]_vars

\* C25, as stated: while NODE_ENV is anything but "development" neither
\* server answers a /dev request or changes the disk, and in a page that
\* is no development build the helpers send no request
C25_DevOnlyInDevelopment ==
  [][/\ env.NODE_ENV # <<"development">>
          => (res'.status = 0 /\ files' = files /\ dirs' = dirs)
     /\ (~env.DEV /\ (saveToJson(1) \/ handleFileChange(1, FilePart(Photo, ImagePng, 1, 1))))
          => (req' = req /\ res' = res)]_vars

OfClass(arr, classId) == SelectSeq(arr, LAMBDA m : m.memberClassId = classId)

\* C26, as stated: an acknowledged Save Order of the Members tab leaves
\* members.json with the ids it had, and leaves every member of a class
\* other than the reordered one as it was
C26_SaveOrderKeepsMembers ==
  [][(MemberManagement_saveOrderMutation(1) /\ res'.status = 200)
       => /\ Ids(files'[MembersPath].items) = Ids(files[MembersPath].items)
          /\ \A i \in DOMAIN TwoClasses :
               Ids(OfClass(admin[1].reordered, <<TwoClasses[i].id>>)) = {}
                 => \A k \in DOMAIN files[MembersPath].items :
                      files[MembersPath].items[k].memberClassId = <<TwoClasses[i].id>>
                        => \E j \in DOMAIN files'[MembersPath].items :
                             files'[MembersPath].items[j] = files[MembersPath].items[k]]_vars

\* C27, as stated: a drag moves the dragged row within the order that is
\* displayed when the drag starts, so that successive drags compose and
\* an earlier unsaved drag is kept by a later one
C27_DragsCompose ==
  [][\A active, over \in Rows(1) :
       (handleDragEnd(1, active, over) /\ admin'[1].tab # "crashed")
         => admin'[1].reordered =
              arrayMove(Displayed(admin[1]), FindIndex(Displayed(admin[1]), active),
                        FindIndex(Displayed(admin[1]), over))]_vars

\* C28, as stated: the unsaved-changes flag of a tab is set exactly when
\* that tab holds an unsaved reorder, that is, when it is the open tab and
\* its list component has a pending order and shows Save Order
C28_FlagIffPendingReorder ==
  \A tab \in ListTabs \cup {"members"} :
    tab \in admin[1].unsaved <=> (admin[1].tab = tab /\ admin[1].hasReordered)

\* C29, as stated: the current slide is always an index of the list of
\* hero images that is shown
C29_SlideIsValidIndex ==
  hero.currentSlide \in 0..(Len(heroImages(hero)) - 1)

====
